---- MODULE Spec2Model ----
(***************************************************************************)
(* Model of the chat agent: the session controller (rust_agent_cli), the   *)
(* tool-call parser and formatter, the tools client and the tool dispatch  *)
(* service (rust_agent_core / tools_server).                               *)
(*                                                                         *)
(* A text (Rust String) is a sequence of tokens; every token stands for    *)
(* one fixed string, so concatenation of texts is concatenation of the     *)
(* strings they stand for.                                                 *)
(***************************************************************************)
EXTENDS Integers, Sequences, FiniteSets, TLC

----------------------------------------------------------------------------
(* Bounds of the model. *)

\* turns (user inputs) the main loop takes before it is given "quit"
MaxTurns == 2
\* stream items pulled from the completion source over the whole run
MaxPulls == 2
\* Dispatch and Discover calls the service is given over the whole run
MaxCalls == 2
\* tools registered over the whole run
MaxTools == 2
\* fragments of the completion text the parser is checked on
MaxFragments == 3
\* related topics in the answer of the search service
MaxTopics == 5
\* files one directory analysis counts
MaxFiles == 6
\* directories below the analysed one that a recursive analysis is inside of at once
MaxDepth == 1

----------------------------------------------------------------------------
(* Tokens: the fixed strings the texts of the model are made of. *)

\* <fence> stands for the three backquotes of a fence, <bq> for one backquote
OPEN == "<fence>tool\n"
OPENT == "<fence>tool"
CLOSE == "\n<fence>"
FENCE == "<fence>"
PROSE == "Use "
PROSET == "Use"
JA == "{\"name\":\"file_analyzer\",\"args\":{\"path\":\"/tmp\",\"recursive\":true}}"
JB == "{\"name\":\"web_search\"}"
JN == "{\"name\":\"nonexistent_tool\",\"args\":{}}"
JE == "{\"name\":\"file_analyzer\",\"args\":{}}"
JW == "{\"name\":\"web_search\",\"args\":{\"query\":\"rust\"}}"
\* a request whose args are a text
JS == "{\"name\":\"calc\",\"args\":\"a:b\"}"
\* a JSON object without a field name
JT == "{\"tool\":\"x\"}"
\* name-colon-arguments: the argument part is a JSON value
SHJ == "calc: {\"x\":1}"
\* name-colon-arguments: the argument part is no JSON and holds a further colon
SHS == "calc: a:b"
SEP == "\n\n"

\* Option: None and Some(x)
None == [some |-> FALSE]
Some(x) == [some |-> TRUE, v |-> x]

\* the tokens that contain a colon
HasColon(tok) == tok \in {JA, JB, JN, JE, JW, JS, JT, SHJ, SHS}

\* the part of a token before its first colon
BeforeColon(tok) ==
    CASE tok \in {SHJ, SHS} -> "calc"
      [] tok = JT -> "{\"tool\""
      [] OTHER -> "{\"name\""

\* the part of a token after its first colon
AfterColon(tok) ==
    CASE tok = JA -> "\"file_analyzer\",\"args\":{\"path\":\"/tmp\",\"recursive\":true}}"
      [] tok = JB -> "\"web_search\"}"
      [] tok = JE -> "\"file_analyzer\",\"args\":{}}"
      [] tok = JW -> "\"web_search\",\"args\":{\"query\":\"rust\"}}"
      [] tok = JS -> "\"calc\",\"args\":\"a:b\"}"
      [] tok = JT -> "\"x\"}"
      [] tok = SHJ -> " {\"x\":1}"
      [] tok = SHS -> " a:b"
      [] OTHER -> "\"nonexistent_tool\",\"args\":{}}"

\* str::trim_end on one token (the other tokens end in no white space)
TrimEndTok(tok) ==
    CASE tok = OPEN -> OPENT
      [] tok = PROSE -> PROSET
      [] OTHER -> tok

\* str::trim_start on one token (the other tokens start with no white space)
TrimStartTok(tok) ==
    CASE tok = CLOSE -> FENCE
      [] tok = " {\"x\":1}" -> "{\"x\":1}"
      [] tok = " a:b" -> "a:b"
      [] OTHER -> tok

\* str::trim on a text whose tokens are not white space only: the leading white
\* space of the first token and the trailing white space of the last token go
Trim(text) ==
    IF text = <<>> THEN <<>>
    ELSE LET started == <<TrimStartTok(text[1])>> \o SubSeq(text, 2, Len(text))
         IN  SubSeq(started, 1, Len(text) - 1) \o <<TrimEndTok(started[Len(text)])>>

RECURSIVE Flatten(_)
\* the concatenation of a sequence of texts
Flatten(ss) == IF ss = <<>> THEN <<>> ELSE Head(ss) \o Flatten(Tail(ss))

Min(S) == CHOOSE x \in S : \A y \in S : x <= y

----------------------------------------------------------------------------
(* serde_json values, as far as the agent looks into them. *)

JsonNull == [kind |-> "null", v |-> <<>>]
JsonString(text) == [kind |-> "string", v |-> text]
JsonObject(text) == [kind |-> "object", v |-> text]
EmptyMap == JsonObject(<<"{}">>)

\* the args of the two requests the system prompt gives as examples
FileAnalyzerArgs == JsonObject(<<"{\"path\":\"/tmp\",\"recursive\":true}">>)
WebSearchArgs == JsonObject(<<"{\"query\":\"rust\"}">>)

\* serde_json::from_str::<Value> of one token, then .get("name").as_str() and
\* .get("args").cloned(): None when the token is no JSON document with a text name
JsonDoc(tok) ==
    CASE tok = JA -> Some([name |-> <<"file_analyzer">>,
                           args |-> Some(FileAnalyzerArgs)])
      [] tok = JB -> Some([name |-> <<"web_search">>, args |-> None])
      [] tok = JN -> Some([name |-> <<"nonexistent_tool">>, args |-> Some(EmptyMap)])
      [] tok = JE -> Some([name |-> <<"file_analyzer">>, args |-> Some(EmptyMap)])
      [] tok = JW -> Some([name |-> <<"web_search">>, args |-> Some(WebSearchArgs)])
      [] tok = JS -> Some([name |-> <<"calc">>, args |-> Some(JsonString(<<"a:b">>))])
      [] OTHER -> None

\* serde_json::from_str of a whole text: a text of the model is a JSON document
\* only when it is exactly one JSON token
FromStr(text) == IF Len(text) = 1 THEN JsonDoc(text[1]) ELSE None

\* the texts that are one JSON value
JsonValues == {JA, JB, JN, JE, JW, JS, JT, "{\"x\":1}"}

\* mutant: the argument part is never decoded
ArgsFromStr_opaque(args_str) == JsonString(args_str)

\* serde_json::from_str(args_str).unwrap_or(Value::String(args_str.to_string()))
ArgsFromStr(args_str) ==
    IF Len(args_str) = 1 /\ args_str[1] \in JsonValues THEN JsonObject(args_str)
    ELSE JsonString(args_str)

----------------------------------------------------------------------------
(* Tool-call parser. *)

\* mutant: a document without args is no request
parse_tool_content_needs_args(content) ==
    LET doc == FromStr(content)
        colons == {i \in 1..Len(content) : HasColon(content[i])}
    IN  IF doc.some /\ doc.v.args.some
        THEN Some([name |-> doc.v.name, args |-> doc.v.args.v])
        ELSE IF colons # {} /\ ~doc.some
        THEN LET i == Min(colons)
                 name == Trim(SubSeq(content, 1, i - 1) \o <<BeforeColon(content[i])>>)
                 args_str == Trim(<<AfterColon(content[i])>>
                                  \o SubSeq(content, i + 1, Len(content)))
             IN  Some([name |-> name, args |-> ArgsFromStr(args_str)])
        ELSE None

\* parse_tool_content: the structured form first, then name-colon-args
parse_tool_content(content) ==
    LET doc == FromStr(content)
        colons == {i \in 1..Len(content) : HasColon(content[i])}
    IN  IF doc.some
        THEN Some([name |-> doc.v.name,
                   args |-> IF doc.v.args.some THEN doc.v.args.v ELSE EmptyMap])
        ELSE IF colons # {}
        THEN LET i == Min(colons)
                 name == Trim(SubSeq(content, 1, i - 1) \o <<BeforeColon(content[i])>>)
                 args_str == Trim(<<AfterColon(content[i])>>
                                  \o SubSeq(content, i + 1, Len(content)))
             IN  Some([name |-> name, args |-> ArgsFromStr(args_str)])
        ELSE None

\* The regex <fence>tool\s*\n([\s\S]*?)\n<fence> on a text, from token number from on:
\* the leftmost opening fence that has a closing fence after it, and the nearest
\* closing fence. A closing fence is a CLOSE token, or the newline that ends one
\* OPEN token followed by the backquotes that start the next one (the match then
\* ends inside that next token, which opens no block any more).
Closers(text, i) ==
    {j \in (i + 1)..Len(text) :
        \/ text[j] = CLOSE
        \/ text[j] = OPEN /\ j < Len(text) /\ text[j + 1] = OPEN}

Openers(text, from) ==
    {i \in from..Len(text) : text[i] = OPEN /\ Closers(text, i) # {}}

\* \s*\n is greedy: when a CLOSE token follows the opening fence and a closing
\* fence comes after it, the newline of that CLOSE token is taken as the newline of
\* the opening fence and its backquotes start the content
Swallows(text, i) ==
    i < Len(text) /\ text[i + 1] = CLOSE /\ Closers(text, i + 1) # {}

RECURSIVE captures_iter(_, _)
captures_iter(text, from) ==
    IF Openers(text, from) = {} THEN <<>>
    ELSE LET i == Min(Openers(text, from))
             j == IF Swallows(text, i) THEN Min(Closers(text, i + 1))
                  ELSE Min(Closers(text, i))
             inner == IF Swallows(text, i) THEN <<FENCE>> \o SubSeq(text, i + 2, j - 1)
                      ELSE SubSeq(text, i + 1, j - 1)
             content == IF text[j] = CLOSE THEN inner ELSE inner \o <<OPENT>>
             next == IF text[j] = CLOSE THEN j + 1 ELSE j + 2
         IN  <<content>> \o captures_iter(text, next)

RECURSIVE KeepParsed_abort(_)
\* mutant: one content that cannot be parsed makes the whole parse come back empty
KeepParsed_abort(contents) ==
    IF contents = <<>> THEN <<>>
    ELSE LET p == parse_tool_content(Head(contents))
             rest == KeepParsed_abort(Tail(contents))
         IN  IF p.some /\ Len(rest) = Len(Tail(contents)) THEN <<p.v>> \o rest ELSE <<>>

RECURSIVE KeepParsed(_)
\* the for loop of parse_tool_calls: a content is pushed if let Ok, else passed over
KeepParsed(contents) ==
    IF contents = <<>> THEN <<>>
    ELSE LET p == parse_tool_content(Head(contents))
         IN  (IF p.some THEN <<p.v>> ELSE <<>>) \o KeepParsed(Tail(contents))

parse_tool_calls(ai_message) == KeepParsed(captures_iter(ai_message, 1))

----------------------------------------------------------------------------
(* Result formatter. *)

\* serde_json::to_string_pretty of a value that is not a string
to_string_pretty(data) ==
    CASE data.kind = "null" -> <<"null">>
      [] data.kind = "object" -> <<"pretty">> \o data.v
      [] OTHER -> <<"\"">> \o data.v \o <<"\"">>

\* mutant: what the result carries besides is rendered too
format_tool_result_leaky(tool_name, result) ==
    <<"tool <bq>">> \o tool_name \o <<"<bq> exec">> \o
    (IF result.success
     THEN <<"ok:\n\n">> \o (IF result.data.kind = "string" THEN result.data.v
                            ELSE to_string_pretty(result.data))
                       \o (IF result.error.some THEN result.error.v ELSE <<>>)
     ELSE <<"failed:\n\n">> \o (IF result.error.some THEN result.error.v
                                ELSE <<"unknown error">>)
                           \o (IF result.data.kind = "null" THEN <<>> ELSE result.data.v))

\* mutant: a success is reported without its data
format_tool_result_nodata(tool_name, result) ==
    <<"tool <bq>">> \o tool_name \o <<"<bq> exec">> \o
    (IF result.success THEN <<"ok:\n\n">>
     ELSE <<"failed:\n\n">> \o (IF result.error.some THEN result.error.v
                                ELSE <<"unknown error">>))

format_tool_result(tool_name, result) ==
    <<"tool <bq>">> \o tool_name \o <<"<bq> exec">> \o
    (IF result.success
     THEN <<"ok:\n\n">> \o (IF result.data.kind = "string" THEN result.data.v
                            ELSE to_string_pretty(result.data))
     ELSE <<"failed:\n\n">> \o (IF result.error.some THEN result.error.v
                                ELSE <<"unknown error">>))

----------------------------------------------------------------------------
(* Tools client: one Dispatch call and its reply, as the client sees them. *)

\* the results a tool call of a turn can come back with
ToolResults ==
    { [success |-> TRUE, data |-> JsonObject(<<"{\"file_count\":3}">>), error |-> None],
      [success |-> FALSE, data |-> JsonNull, error |-> Some(<<"path not found">>)] }

\* what comes back for one do_action call: a transport error, a protocol fault
\* (Status), or a stream of reply records, each with a body that decodes as a
\* ToolResult or does not
RpcReplies ==
    { [k |-> "transport"],
      [k |-> "status", code |-> "NotFound"],
      [k |-> "records", recs |-> <<>>],
      [k |-> "records", recs |-> <<[decodes |-> FALSE]>>] }
    \cup { [k |-> "records", recs |-> <<[decodes |-> TRUE, result |-> r]>>] : r \in ToolResults }

Ok(x) == [ok |-> TRUE, v |-> x]
Err(e) == [ok |-> FALSE, e |-> e]

\* mutant: a reply stream without a record is taken for a result that failed
client_execute_tool_lenient(reply) ==
    CASE reply.k = "transport" -> Err(<<"transport error">>)
      [] reply.k = "status" -> Err(<<"status: ", reply.code>>)
      [] reply.k = "records" /\ reply.recs = <<>> ->
            Ok([success |-> FALSE, data |-> JsonNull, error |-> None])
      [] reply.k = "records" /\ reply.recs # <<>> ->
            IF Head(reply.recs).decodes THEN Ok(Head(reply.recs).result)
            ELSE Err(<<"decode error">>)

\* ToolsClient::execute_tool once the call has been issued: the outcome of the
\* do_action await and of reading the first reply record
client_execute_tool(reply) ==
    CASE reply.k = "transport" -> Err(<<"transport error">>)
      [] reply.k = "status" -> Err(<<"status: ", reply.code>>)
      [] reply.k = "records" /\ reply.recs = <<>> ->
            Err(<<"No result received from tool execution">>)
      [] reply.k = "records" /\ reply.recs # <<>> ->
            IF Head(reply.recs).decodes THEN Ok(Head(reply.recs).result)
            ELSE Err(<<"decode error">>)

\* the ToolParameters execute_tool is called with
Requests ==
    { [name |-> <<"file_analyzer">>, args |-> FileAnalyzerArgs],
      [name |-> <<"file_analyzer">>, args |-> EmptyMap],
      [name |-> <<"web_search">>, args |-> WebSearchArgs],
      [name |-> <<"nonexistent_tool">>, args |-> EmptyMap],
      [name |-> <<"calc">>, args |-> JsonString(<<"a:b">>)] }

\* mutant: only the args are put on the wire
to_vec_args_only(params) == params.args.v

\* serde_json::to_vec(&params): the fields name and args in the order of the
\* struct, a text between quotes, an object as it is
to_vec(params) ==
    CASE params = [name |-> <<"file_analyzer">>, args |-> FileAnalyzerArgs] -> <<JA>>
      [] params = [name |-> <<"file_analyzer">>, args |-> EmptyMap] -> <<JE>>
      [] params = [name |-> <<"web_search">>, args |-> WebSearchArgs] -> <<JW>>
      [] params = [name |-> <<"nonexistent_tool">>, args |-> EmptyMap] -> <<JN>>
      [] params = [name |-> <<"calc">>, args |-> JsonString(<<"a:b">>)] -> <<JS>>

\* the bytes of a name are UTF-8 or not
IsUtf8(bytes) == bytes # <<"<not utf-8>">>
HasDescriptor(info) == info.flight_descriptor.some

\* mutant: a name that is no UTF-8 is left out
list_tools_lossy(reply) ==
    CASE reply.k = "transport" -> Err(<<"transport error">>)
      [] reply.k = "status" -> Err(<<"status: ", reply.code>>)
      [] reply.k = "flights" ->
            LET kept == SelectSeq(reply.infos, HasDescriptor)
                cmds == [i \in 1..Len(kept) |-> kept[i].flight_descriptor.v.cmd]
            IN  Ok(SelectSeq(cmds, IsUtf8))

\* ToolsClient::list_tools once the call has been issued: the infos without a
\* descriptor are skipped, the cmd of every other is decoded as UTF-8 with ?
list_tools(reply) ==
    CASE reply.k = "transport" -> Err(<<"transport error">>)
      [] reply.k = "status" -> Err(<<"status: ", reply.code>>)
      [] reply.k = "flights" ->
            LET kept == SelectSeq(reply.infos, HasDescriptor)
                cmds == [i \in 1..Len(kept) |-> kept[i].flight_descriptor.v.cmd]
            IN  IF \E i \in 1..Len(cmds) : ~IsUtf8(cmds[i]) THEN Err(<<"decode error">>)
                ELSE Ok(cmds)

----------------------------------------------------------------------------
(* Chat session and the main loop of the command line program. *)

VARIABLES
    pc,              \* where main / get_response_stream stands
    messages,        \* ChatSession.messages
    tools_client,    \* ChatSession.tools_client: None or Some
    client_lock,     \* the mutex around the tools client is held
    full_response,   \* get_response_stream: the text assembled so far
    tool_calls,      \* get_response_stream: the requests the for loop still has to run
    tool_name,       \* get_response_stream: name of the request being run
    result_content,  \* get_response_stream: the text to return after tool calls
    ret,             \* what get_response_stream returned to main
    sink,            \* the fragments the callback of this turn has been given
    received,        \* what the completion call of this turn has yielded so far
    parsed,          \* the texts parse_tool_calls has been applied to in this turn
    dispatched,      \* the requests for which this turn has issued a Dispatch call
    replied,         \* the outcomes of the tool calls of this turn that have returned
    inflight,        \* Dispatch calls issued and not yet returned
    before,          \* the history as it was before the user message of this turn
    turns,           \* outcome of every finished turn, "ok" or "err"
    pulls,           \* stream items pulled over the whole run
    set_called,      \* set_tools_client has been called
    client_at_start, \* set_called as it was when get_response_stream was entered
    requested,       \* the completion request get_response_stream issued in this turn
    tools,           \* ToolsFlightService.tools: the registered tools, in order
    lock,            \* the call that holds the mutex of tools, 0 when it is free
    calls,           \* the calls the service has been given, and where each stands
    registered,      \* the tools register_tool has been called with, in call order
    walk,            \* analyze_directory: where the analysis of a directory stands
    tool_ret         \* what the execute of a tool of the server returned

\* no directory is being analysed
NoWalk == [st |-> "idle", impl |-> "none", args |-> <<>>, recursive |-> FALSE, root |-> FALSE,
           pending |-> 0, seen |-> 0, frames |-> <<>>]

vars == <<pc, messages, tools_client, client_lock, full_response, tool_calls, tool_name,
          result_content, ret, sink, received, parsed, dispatched, replied,
          inflight, before, turns, pulls, set_called, client_at_start, requested,
          tools, lock, calls, registered, walk, tool_ret>>

sessVars == <<pc, messages, tools_client, client_lock, full_response, tool_calls, tool_name,
              result_content, ret, sink, received, parsed, dispatched, replied,
              inflight, before, turns, pulls, set_called, client_at_start, requested>>

toolVars == <<walk, tool_ret>>

svcVars == <<tools, lock, calls, registered, toolVars>>

turnVars == <<full_response, tool_calls, tool_name, result_content, sink, received,
              parsed, dispatched, replied, inflight>>

UserInputs == { <<"hello">> }
SystemPrompt == <<"tools prompt">>

\* the fragments the completion stream can yield
Fragments ==
    { <<>>, <<PROSE>>, <<OPEN>>, <<JA, CLOSE>>, <<OPEN, JB, CLOSE>>,
      <<PROSE, OPEN, JA, CLOSE>> }

NoRet == [st |-> "none"]

Message(role, content) == [role |-> role, content |-> content]

\* mutant: a session that is built with a client nobody attached
ChatSession_new_attached == [messages |-> <<>>, tools_client |-> Some("client")]

ChatSession_new == [messages |-> <<>>, tools_client |-> None]

add_user_message(msgs, content) == Append(msgs, Message("user", content))

\* mutant: the assistant message is put in front of the history
add_assistant_message_front(msgs, content) == <<Message("assistant", content)>> \o msgs

add_assistant_message(msgs, content) == Append(msgs, Message("assistant", content))

add_system_message(msgs, content) == Append(msgs, Message("system", content))

\* mutant: the rollback forgets to pop
remove_last_message_keep(msgs) == msgs

\* mutant: the rollback clears the history
remove_last_message_clear(msgs) == <<>>

\* Vec::pop: nothing happens on an empty history
remove_last_message(msgs) ==
    IF msgs = <<>> THEN msgs ELSE SubSeq(msgs, 1, Len(msgs) - 1)

\* mutant: the newest fragment is put in front of the ones already given
callback_front(out, chunk) == <<chunk>> \o out

\* the closure main passes as the callback: one print per call
callback(out, chunk) == Append(out, chunk)

\* mutant: the new fragment replaces the text assembled so far
push_str_replace(s, t) == t

push_str(s, t) == s \o t

\* mutant: the tool calls are run also when no client is attached
ShouldRunTools_any(requests, client) == requests # <<>>

\* the condition under which get_response_stream runs the tool calls
ShouldRunTools(requests, client) == requests # <<>> /\ client.some

\* the text of one tool call: the formatted result or the error line
ToolText(name, outcome) ==
    IF outcome.ok THEN format_tool_result(name, outcome.v)
    ELSE <<"tool <bq>">> \o name \o <<"<bq> exec failed: ">> \o outcome.e

\* mutant: the separator and the text are put in front of what was shown before
EmitToolText_front(out, text) == <<<<SEP>>, text>> \o out

\* mutant: the separator is not given to the callback
EmitToolText_nosep(out, text) == callback(out, text)

\* the two callback calls that follow a tool call: the separator and the text
EmitToolText(out, text) == callback(callback(out, <<SEP>>), text)

\* mutant: the loop takes the requests from the back
NextRequest_last(requests) == requests[Len(requests)]

\* the for loop takes the requests in the order of the vector
NextRequest(requests) == Head(requests)

\* mutant: the guard is dropped as soon as the request is sent
lock_await_released(held) == FALSE

\* ChatSession::execute_tool: tools_client.lock().await; the guard lives until
\* execute_tool returns
lock_await(held) == TRUE

\* the guard goes out of scope when execute_tool returns
drop_guard(held) == FALSE

\* mutant: the request is built from the history without its last message
ChatRequest_nolast(msgs) ==
    [model |-> "deepseek-chat", messages |-> remove_last_message(msgs), stream |-> TRUE]

\* the ChatRequest chat_stream posts for self.messages.clone()
ChatRequest(msgs) == [model |-> "deepseek-chat", messages |-> msgs, stream |-> TRUE]

ProgressText(name) == <<"\nexec tool <bq>">> \o name \o <<"<bq>...\n">>

CallIds == 1..MaxCalls

\* a call the service has not been given yet. st: where the handler stands; op, type
\* and body: the request; params: the decoded request; tool: the position of the
\* tool found; out: the reply; decoded, locked, invoked: whether the handler has
\* decoded the payload, has acquired the mutex of tools, and which tools it has run;
\* ran: what the execute of the tool returned; got: what the client stub that made
\* the call returned to its caller, and seen: the reply as the stub was handed it;
\* req: the ToolParameters execute_tool of the tools client was called with, None
\* for a call of another peer; passed: the ToolParameters the tool was executed with
IdleCall ==
    [st |-> "idle", op |-> "", type |-> "", body |-> <<>>, params |-> None, tool |-> 0,
     out |-> None, decoded |-> FALSE, locked |-> FALSE, invoked |-> <<>>,
     ran |-> None, got |-> None, seen |-> None, req |-> None, passed |-> None]

Init ==
    /\ tools = <<>>
    /\ lock = 0
    /\ calls = [c \in CallIds |-> IdleCall]
    /\ registered = <<>>
    /\ walk = NoWalk
    /\ tool_ret = None
    /\ pc = "connect"
    /\ messages = ChatSession_new.messages
    /\ tools_client = ChatSession_new.tools_client
    /\ client_lock = FALSE
    /\ full_response = <<>>
    /\ tool_calls = <<>>
    /\ tool_name = <<>>
    /\ result_content = <<>>
    /\ ret = NoRet
    /\ sink = <<>>
    /\ received = <<>>
    /\ parsed = <<>>
    /\ dispatched = <<>>
    /\ replied = <<>>
    /\ inflight = 0
    /\ before = <<>>
    /\ turns = <<>>
    /\ pulls = 0
    /\ set_called = FALSE
    /\ client_at_start = FALSE
    /\ requested = None

\* the variables of one turn, as they are between turns
TurnReset ==
    /\ full_response' = <<>>
    /\ tool_calls' = <<>>
    /\ tool_name' = <<>>
    /\ result_content' = <<>>
    /\ sink' = <<>>
    /\ received' = <<>>
    /\ parsed' = <<>>
    /\ dispatched' = <<>>
    /\ replied' = <<>>
    /\ inflight' = 0
    /\ requested' = None

\* main: ToolsClient::connect succeeded; the client is attached and the system
\* prompt added
ConnectOk ==
    /\ UNCHANGED svcVars
    /\ pc = "connect"
    /\ tools_client' = Some("client")
    /\ client_lock' = FALSE
    /\ set_called' = TRUE
    /\ messages' = add_system_message(messages, SystemPrompt)
    /\ pc' = "input"
    /\ UNCHANGED <<requested, turnVars, ret, before, turns, pulls, client_at_start>>

\* main: ToolsClient::connect failed; plain conversation mode
ConnectErr ==
    /\ UNCHANGED svcVars
    /\ pc = "connect"
    /\ pc' = "input"
    /\ UNCHANGED <<requested, messages, tools_client, client_lock, set_called, turnVars, ret, before, turns,
                   pulls, client_at_start>>

\* main: the user typed quit or exit
Quit ==
    /\ UNCHANGED svcVars
    /\ pc = "input"
    /\ pc' = "exit"
    /\ UNCHANGED <<requested, messages, tools_client, client_lock, set_called, turnVars, ret, before, turns,
                   pulls, client_at_start>>

\* main: any other input starts a turn: add_user_message, then get_response_stream
\* is entered
UserInput ==
    /\ UNCHANGED svcVars
    /\ pc = "input"
    /\ Len(turns) < MaxTurns
    /\ \E user_input \in UserInputs :
          messages' = add_user_message(messages, user_input)
    /\ before' = messages
    /\ client_at_start' = set_called
    /\ pc' = "request"
    /\ UNCHANGED <<requested, tools_client, client_lock, set_called, turnVars, ret, turns, pulls>>

\* get_response_stream: chat_stream(...).await returned the stream
ChatStreamOk ==
    /\ UNCHANGED svcVars
    /\ pc = "request"
    /\ requested' = Some(ChatRequest(messages))
    /\ pc' = "stream"
    /\ UNCHANGED <<messages, tools_client, client_lock, set_called, turnVars, ret, before, turns,
                   pulls, client_at_start>>

\* get_response_stream: chat_stream(...).await? failed
ChatStreamErr ==
    /\ UNCHANGED svcVars
    /\ pc = "request"
    /\ requested' = Some(ChatRequest(messages))
    /\ received' = Append(received, Err(<<"request failed">>))
    /\ ret' = [st |-> "err", e |-> <<"request failed">>]
    /\ pc' = "ret"
    /\ UNCHANGED <<messages, tools_client, client_lock, set_called, full_response, tool_calls,
                   tool_name, result_content, sink, parsed, dispatched, replied,
                   inflight, before, turns, pulls, client_at_start>>

\* get_response_stream: stream.next() yielded Ok(content)
StreamChunk ==
    /\ UNCHANGED svcVars
    /\ pc = "stream"
    /\ pulls < MaxPulls
    /\ \E content \in Fragments :
          /\ received' = Append(received, Ok(content))
          /\ IF content # <<>>
             THEN /\ sink' = callback(sink, content)
                  /\ full_response' = push_str(full_response, content)
             ELSE UNCHANGED <<sink, full_response>>
    /\ pulls' = pulls + 1
    /\ UNCHANGED <<requested, pc, messages, tools_client, client_lock, set_called, tool_calls, tool_name,
                   result_content, ret, parsed, dispatched, replied, inflight, before,
                   turns, client_at_start>>

\* mutant: on an Err item the loop is left and the text assembled so far is parsed
StreamErr_salvage ==
    /\ UNCHANGED svcVars
    /\ pc = "stream"
    /\ received' = Append(received, Err(<<"stream failed">>))
    /\ parsed' = Append(parsed, full_response)
    /\ LET found == parse_tool_calls(full_response)
       IN  IF ShouldRunTools(found, tools_client)
           THEN /\ tool_calls' = found
                /\ result_content' = full_response
                /\ pc' = "tool"
                /\ UNCHANGED ret
           ELSE /\ ret' = [st |-> "err", e |-> <<"stream failed">>]
                /\ pc' = "ret"
                /\ UNCHANGED <<tool_calls, result_content>>
    /\ UNCHANGED <<requested, messages, tools_client, client_lock, set_called, full_response,
                   tool_name, sink, dispatched, replied, inflight, before, turns, pulls,
                   client_at_start>>

\* get_response_stream: stream.next() yielded Err; chunk? returns it
StreamErr ==
    /\ UNCHANGED svcVars
    /\ pc = "stream"
    /\ received' = Append(received, Err(<<"stream failed">>))
    /\ ret' = [st |-> "err", e |-> <<"stream failed">>]
    /\ pc' = "ret"
    /\ UNCHANGED <<requested, messages, tools_client, client_lock, set_called, full_response, tool_calls,
                   tool_name, result_content, sink, parsed, dispatched, replied,
                   inflight, before, turns, pulls, client_at_start>>

\* get_response_stream: the stream ended; the assembled text is parsed, and either
\* the tool calls are run or the text is returned as it is
StreamEnd ==
    /\ UNCHANGED svcVars
    /\ pc = "stream"
    /\ parsed' = Append(parsed, full_response)
    /\ LET found == parse_tool_calls(full_response)
       IN  IF ShouldRunTools(found, tools_client)
           THEN /\ tool_calls' = found
                /\ result_content' = full_response
                /\ pc' = "tool"
                /\ UNCHANGED ret
           ELSE /\ ret' = [st |-> "ok", v |-> full_response]
                /\ pc' = "ret"
                /\ UNCHANGED <<tool_calls, result_content>>
    /\ UNCHANGED <<requested, messages, tools_client, client_lock, set_called, full_response, tool_name, sink,
                   received, dispatched, replied, inflight, before, turns, pulls,
                   client_at_start>>

\* mutant: a failed tool call is propagated with ? and ends the turn
AfterToolCall_abort(name, outcome, rest) ==
    LET text == ToolText(name, outcome)
        content == push_str(push_str(result_content, <<SEP>>), text)
    IN  /\ replied' = Append(replied, outcome)
        /\ IF ~outcome.ok
           THEN /\ ret' = [st |-> "err", e |-> outcome.e]
                /\ pc' = "ret"
                /\ UNCHANGED <<result_content, tool_calls>>
           ELSE /\ result_content' = content
                /\ tool_calls' = rest
                /\ IF rest = <<>>
                   THEN /\ ret' = [st |-> "ok", v |-> content]
                        /\ pc' = "ret"
                   ELSE /\ pc' = "tool"
                        /\ UNCHANGED ret

\* the rest of one iteration of the for loop once the outcome of execute_tool is
\* known: the text goes to result_content and to the callback; after the last
\* request get_response_stream returns Ok(result_content)
AfterToolCall(name, outcome, rest) ==
    LET text == ToolText(name, outcome)
        content == push_str(push_str(result_content, <<SEP>>), text)
    IN  /\ result_content' = content
        /\ replied' = Append(replied, outcome)
        /\ tool_calls' = rest
        /\ IF rest = <<>>
           THEN /\ ret' = [st |-> "ok", v |-> content]
                /\ pc' = "ret"
           ELSE /\ pc' = "tool"
                /\ UNCHANGED ret

\* get_response_stream: the next request of the for loop: the progress fragment,
\* then execute_tool, which issues the Dispatch call when a client is attached
ToolDispatch ==
    /\ UNCHANGED svcVars
    /\ pc = "tool"
    /\ tool_calls # <<>>
    /\ LET tool_params == NextRequest(tool_calls)
           shown == callback(sink, ProgressText(tool_params.name))
       IN  /\ tool_name' = tool_params.name
           /\ IF tools_client.some
              THEN /\ ~client_lock
                   /\ client_lock' = lock_await(client_lock)
                   /\ dispatched' = Append(dispatched, tool_params)
                   /\ inflight' = inflight + 1
                   /\ sink' = shown
                   /\ pc' = "await"
                   /\ UNCHANGED <<tool_calls, result_content, replied, ret>>
              ELSE LET outcome == Err(<<"tools client not initialised">>)
                   IN  /\ AfterToolCall(tool_params.name, outcome, Tail(tool_calls))
                       /\ sink' = EmitToolText(shown, ToolText(tool_params.name, outcome))
                       /\ UNCHANGED <<dispatched, inflight, client_lock>>
    /\ UNCHANGED <<requested, messages, tools_client, set_called, full_response, received, parsed,
                   before, turns, pulls, client_at_start>>

\* get_response_stream: execute_tool returned, with one of the replies given
ToolReturnFrom(replies) ==
    /\ UNCHANGED svcVars
    /\ pc = "await"
    /\ \E reply \in replies :
          LET outcome == client_execute_tool(reply)
          IN  /\ AfterToolCall(tool_name, outcome, Tail(tool_calls))
              /\ sink' = EmitToolText(sink, ToolText(tool_name, outcome))
    /\ inflight' = inflight - 1
    /\ client_lock' = drop_guard(client_lock)
    /\ UNCHANGED <<requested, messages, tools_client, set_called, full_response, tool_name,
                   received, parsed, dispatched, before, turns, pulls, client_at_start>>

ToolReturn == ToolReturnFrom(RpcReplies)

\* main: get_response_stream returned Ok(response)
TurnOk ==
    /\ UNCHANGED svcVars
    /\ pc = "ret"
    /\ ret.st = "ok"
    /\ messages' = add_assistant_message(messages, ret.v)
    /\ turns' = Append(turns, ret.st)
    /\ pc' = "input"
    /\ TurnReset
    /\ ret' = NoRet
    /\ UNCHANGED <<tools_client, client_lock, set_called, before, pulls, client_at_start>>

\* main: get_response_stream returned Err(e)
TurnErr ==
    /\ UNCHANGED svcVars
    /\ pc = "ret"
    /\ ret.st = "err"
    /\ messages' = remove_last_message(messages)
    /\ turns' = Append(turns, ret.st)
    /\ pc' = "input"
    /\ TurnReset
    /\ ret' = NoRet
    /\ UNCHANGED <<tools_client, client_lock, set_called, before, pulls, client_at_start>>

Next ==
    \/ ConnectOk \/ ConnectErr \/ Quit \/ UserInput
    \/ ChatStreamOk \/ ChatStreamErr
    \/ StreamChunk \/ StreamErr \/ StreamEnd
    \/ ToolDispatch \/ ToolReturn
    \/ TurnOk \/ TurnErr

Spec == Init /\ [][Next]_vars

----------------------------------------------------------------------------
(* The end of the completion stream on its own: get_response_stream stands at the
   end of a stream that has yielded up to MaxFragments fragments, chosen so that
   the assembled text holds blocks of every form, and parses the text. *)

\* fragments with structured blocks, name-colon-arguments blocks, blocks of neither
\* form, and loose fences
ParseFragments ==
    { <<PROSE>>, <<OPEN>>, <<CLOSE>>,
      <<OPEN, JA, CLOSE>>, <<OPEN, JB, CLOSE>>, <<OPEN, JT, CLOSE>>,
      <<OPEN, SHJ, CLOSE>>, <<OPEN, SHS, CLOSE>>, <<OPEN, PROSE, CLOSE>>,
      <<SHJ, SHS, CLOSE>> }

\* main has attached the client and added the system prompt and the user message;
\* the stream has yielded n fragments, each given to the callback and pushed onto
\* full_response
InitParse ==
    /\ tools = <<>>
    /\ lock = 0
    /\ calls = [c \in CallIds |-> IdleCall]
    /\ registered = <<>>
    /\ walk = NoWalk
    /\ tool_ret = None
    /\ pc = "stream"
    /\ before = add_system_message(ChatSession_new.messages, SystemPrompt)
    /\ \E user_input \in UserInputs : messages = add_user_message(before, user_input)
    /\ requested = Some(ChatRequest(messages))
    /\ tools_client = Some("client")
    /\ client_lock = FALSE
    /\ set_called = TRUE
    /\ client_at_start = TRUE
    /\ \E n \in 0..MaxFragments :
          \E fs \in [1..n -> ParseFragments] :
              /\ received = [i \in 1..n |-> Ok(fs[i])]
              /\ sink = fs
              /\ full_response = Flatten(fs)
              /\ pulls = n
    /\ tool_calls = <<>>
    /\ tool_name = <<>>
    /\ result_content = <<>>
    /\ ret = NoRet
    /\ parsed = <<>>
    /\ dispatched = <<>>
    /\ replied = <<>>
    /\ inflight = 0
    /\ turns = <<>>

NextParse == StreamEnd

SpecParse == InitParse /\ [][NextParse]_vars

----------------------------------------------------------------------------
(* The return of one tool call on its own: get_response_stream has parsed a text
   with one block, has given the progress fragment to the callback and waits for
   execute_tool, which comes back with any result a tool can build. *)

\* the texts whose one request is in flight
FormatTexts ==
    { <<OPEN, JA, CLOSE>>, <<OPEN, JB, CLOSE>>, <<OPEN, SHJ, CLOSE>>,
      <<PROSE, OPEN, JW, CLOSE>> }

\* ToolResult: every combination of success, data and error
FormatDatas ==
    { JsonNull, JsonString(<<"done">>), JsonString(<<"2 files">>),
      JsonObject(<<"{\"file_count\":3}">>), JsonObject(<<"{\"results\":[]}">>) }
FormatErrors == { None, Some(<<"path not found">>), Some(<<"timed out">>) }
FormatResults == [success : BOOLEAN, data : FormatDatas, error : FormatErrors]

FormatReplies ==
    RpcReplies \cup
    { [k |-> "records", recs |-> <<[decodes |-> TRUE, result |-> r]>>] : r \in FormatResults }

InitFormat ==
    /\ tools = <<>>
    /\ lock = 0
    /\ calls = [c \in CallIds |-> IdleCall]
    /\ registered = <<>>
    /\ walk = NoWalk
    /\ tool_ret = None
    /\ pc = "await"
    /\ before = add_system_message(ChatSession_new.messages, SystemPrompt)
    /\ \E user_input \in UserInputs : messages = add_user_message(before, user_input)
    /\ requested = Some(ChatRequest(messages))
    /\ tools_client = Some("client")
    /\ client_lock = lock_await(FALSE)
    /\ set_called = TRUE
    /\ client_at_start = TRUE
    /\ full_response \in FormatTexts
    /\ received = <<Ok(full_response)>>
    /\ pulls = 1
    /\ parsed = <<full_response>>
    /\ tool_calls = parse_tool_calls(full_response)
    /\ tool_name = NextRequest(tool_calls).name
    /\ result_content = full_response
    /\ sink = callback(callback(<<>>, full_response), ProgressText(tool_name))
    /\ dispatched = <<NextRequest(tool_calls)>>
    /\ replied = <<>>
    /\ inflight = 1
    /\ ret = NoRet
    /\ turns = <<>>

NextFormat == ToolReturnFrom(FormatReplies)

SpecFormat == InitFormat /\ [][NextFormat]_vars

----------------------------------------------------------------------------
(* Tool registry and dispatch service. *)

ToolNames == { <<"file_analyzer">>, <<"web_search">> }
ActionTypes == { "execute", "other" }

\* the tools a server registers: the file analyzer the server binary defines for
\* itself, the file analyzer and the web search of its tools module
Tools ==
    { [name |-> <<"file_analyzer">>, impl |-> "main::FileAnalyzerTool"],
      [name |-> <<"file_analyzer">>, impl |-> "tools::FileAnalyzerTool"],
      [name |-> <<"web_search">>, impl |-> "tools::WebSearchTool"] }

\* the payloads a Dispatch call can carry: requests with name and args (args that
\* fit the tool named, args that do not, a name no tool has, args that are a text),
\* a document without args, and bytes that are no JSON
Bodies == { <<JA>>, <<JN>>, <<JB>>, <<PROSE>>, <<JE>>, <<JW>>, <<JS>> }

\* the payloads that are no encoding of a ToolParameters
RawBodies == { <<JB>>, <<PROSE>> }

\* serde_json::from_value of the args into the parameter type of the tool:
\* FileAnalyzerParams needs path and recursive, WebSearchParams needs query
from_value(tool, args) ==
    IF tool.impl = "tools::WebSearchTool" THEN args = WebSearchArgs
    ELSE args = FileAnalyzerArgs

ArgsError == <<"missing field">>

\* mutant: the result of a failure carries no message
Failure_nomessage(error) == [success |-> FALSE, data |-> JsonNull, error |-> None]

\* the ToolResult the tools build for a failure
Failure(error) == [success |-> FALSE, data |-> JsonNull, error |-> Some(error)]
Success(tool) ==
    [success |-> TRUE,
     data |-> IF tool.impl = "tools::WebSearchTool"
              THEN JsonObject(<<"{\"query\":\"rust\",\"results\":[]}">>)
              ELSE JsonObject(<<"{\"file_count\":3}">>),
     error |-> None]

\* Tool::execute. works: whether the directory walk or the search succeeds. The
\* tools of the tools module turn args they cannot decode into a result; the file
\* analyzer of the server binary returns the decode error with ?
execute(tool, params, works) ==
    IF ~from_value(tool, params.args)
    THEN IF tool.impl = "main::FileAnalyzerTool" THEN Err(ArgsError)
         ELSE Ok(Failure(ArgsError))
    ELSE IF works THEN Ok(Success(tool))
    ELSE Ok(Failure(<<"path not found">>))

Status(code) == [k |-> "status", code |-> code]

\* the FlightInfo list_flights builds for one tool: the name as the cmd of the
\* descriptor
FlightInfo(tool) == [flight_descriptor |-> Some([cmd |-> tool.name])]
OneRecord(result) == [k |-> "records", recs |-> <<[decodes |-> TRUE, result |-> result]>>]

\* mutant: a result that reports a failure is turned into an internal fault too
do_action_reply_strict(outcome) ==
    IF outcome.ok /\ outcome.v.success THEN OneRecord(outcome.v) ELSE Status("Internal")

\* do_action after execute: map_err(Status::internal)?, then the result as the
\* one item of the reply stream
do_action_reply(outcome) ==
    IF outcome.ok THEN OneRecord(outcome.v) ELSE Status("Internal")

\* mutant: args that are missing are taken for the empty mapping
from_slice_default_args(body) ==
    LET doc == FromStr(body)
    IN  IF doc.some
        THEN Some([name |-> doc.v.name,
                   args |-> IF doc.v.args.some THEN doc.v.args.v ELSE EmptyMap])
        ELSE None

\* serde_json::from_slice::<ToolParameters>: name and args are both required
from_slice(body) ==
    LET doc == FromStr(body)
    IN  IF doc.some /\ doc.v.args.some
        THEN Some([name |-> doc.v.name, args |-> doc.v.args.v])
        ELSE None

\* mutant: the action type is not looked at
do_action_validate_anytype(type, body) ==
    LET p == from_slice(body)
    IN  [valid |-> p.some, decoded |-> TRUE, params |-> p]

\* do_action up to the lock: the action type is checked, then the payload decoded
do_action_validate(type, body) ==
    IF type # "execute"
    THEN [valid |-> FALSE, decoded |-> FALSE, params |-> None]
    ELSE LET p == from_slice(body)
         IN  [valid |-> p.some, decoded |-> TRUE, params |-> p]

\* tools.iter().find(|t| t.name() == name): the position of the first tool of that
\* name, 0 when there is none
\* mutant: the last tool of that name is taken
find_last(ts, name) ==
    LET hits == {i \in 1..Len(ts) : ts[i].name = name}
    IN  IF hits = {} THEN 0 ELSE CHOOSE i \in hits : \A j \in hits : j <= i

find(ts, name) ==
    LET hits == {i \in 1..Len(ts) : ts[i].name = name}
    IN  IF hits = {} THEN 0 ELSE Min(hits)

\* mutant: a tool whose name is registered already takes the place of the old one
register_tool_replace(ts, tool) ==
    IF find(ts, tool.name) = 0 THEN Append(ts, tool)
    ELSE [ts EXCEPT ![find(ts, tool.name)] = tool]

register_tool(ts, tool) == Append(ts, tool)

\* mutant: the guard is kept when execute returned an error
drop_tools_guard_kept_on_error(held, outcome) == IF outcome.ok THEN 0 ELSE held

\* do_action returns, with the reply or with map_err(Status::internal)?: the guard
\* of the mutex is a local of the handler and is dropped either way
drop_tools_guard(held, outcome) == 0

\* the calls are numbered in the order the service is given them
NextCall(c) == calls[c].st = "idle" /\ \A d \in 1..(c - 1) : calls[d].st # "idle"

\* no reply is on its way: a reply is taken by its caller, and the call forgotten,
\* before the service takes another step
Quiet == \A c \in CallIds : calls[c].st \notin {"done", "returned"}

\* a call whose handler has returned and whose caller has what it asked for
Retired == [IdleCall EXCEPT !.st = "retired"]

\* the bytes of a ticket or of a name: text, or bytes that are no UTF-8
InvalidUtf8 == <<"<not utf-8>">>
from_utf8(bytes) == IF bytes = InvalidUtf8 THEN None ELSE Some(bytes)

\* the tickets a bulk get can carry
Tickets == ToolNames \cup { <<"nonexistent_tool">>, InvalidUtf8 }

\* Tool::description
description(tool) ==
    IF tool.impl = "tools::WebSearchTool" THEN <<"search the web">>
    ELSE <<"analyze the files of a directory">>

\* the operations that answer with Status::unimplemented
UnimplementedOps ==
    { "get_schema", "get_flight_info", "poll_flight_info", "do_exchange", "do_put" }

\* register_tool: the mutex is taken, the tool pushed, the mutex released
RegisterTool ==
    /\ Quiet
    /\ lock = 0
    /\ Len(tools) < MaxTools
    /\ \E tool \in Tools :
          /\ tools' = register_tool(tools, tool)
          /\ registered' = Append(registered, tool)
    /\ UNCHANGED <<lock, calls, sessVars, toolVars>>

\* the Action of a Dispatch call: the one execute_tool of the tools client builds
\* for the ToolParameters it is given, or one of another peer
Actions ==
    { [req |-> Some(r), type |-> "execute", body |-> to_vec(r)] : r \in Requests }
    \cup { [req |-> None, type |-> t, body |-> b] :
              t \in ActionTypes \ {"execute"}, b \in Bodies }
    \cup { [req |-> None, type |-> "execute", body |-> b] : b \in RawBodies }

\* do_action: a Dispatch call arrives, from execute_tool of the tools client, which
\* sends the type execute and the encoded ToolParameters, or from another peer; it
\* is refused with invalid argument, or goes on to wait for the mutex
DoActionBegin ==
    \E c \in CallIds, action \in Actions :
        /\ Quiet
        /\ NextCall(c)
        /\ LET v == do_action_validate(action.type, action.body)
           IN  calls' = [calls EXCEPT ![c] =
                   [IdleCall EXCEPT !.st = IF v.valid THEN "lock" ELSE "done",
                                    !.op = "do_action",
                                    !.type = action.type,
                                    !.body = action.body,
                                    !.req = action.req,
                                    !.params = v.params,
                                    !.decoded = v.decoded,
                                    !.out = IF v.valid THEN None
                                            ELSE Some(Status("InvalidArgument"))]]
        /\ UNCHANGED <<tools, lock, registered, sessVars, toolVars>>

\* do_action: the mutex is acquired and the tool looked up; NotFound returns and
\* drops the guard, a tool found is executed with the guard still alive
DoActionLock ==
    \E c \in CallIds :
        /\ Quiet
        /\ calls[c].st = "lock"
        /\ calls[c].op = "do_action"
        /\ lock = 0
        /\ LET i == find(tools, calls[c].params.v.name)
           IN  IF i = 0
               THEN /\ calls' = [calls EXCEPT ![c].st = "done",
                                              ![c].locked = TRUE,
                                              ![c].out = Some(Status("NotFound"))]
                    /\ UNCHANGED lock
               ELSE /\ calls' = [calls EXCEPT ![c].st = "exec",
                                              ![c].locked = TRUE,
                                              ![c].tool = i,
                                              ![c].invoked = Append(@, i)]
                    /\ lock' = c
        /\ UNCHANGED <<tools, registered, sessVars, toolVars>>

\* do_action: execute returned; a result is relayed as the one reply record, an
\* error becomes an internal fault; the guard is dropped
DoActionExecDone ==
    \E c \in CallIds, works \in BOOLEAN :
        /\ Quiet
        /\ calls[c].st = "exec"
        /\ LET outcome == execute(tools[calls[c].tool], calls[c].params.v, works)
           IN  /\ calls' = [calls EXCEPT ![c].st = "done",
                                         ![c].passed = Some(calls[c].params.v),
                                         ![c].ran = Some(outcome),
                                         ![c].out = Some(do_action_reply(outcome))]
               /\ lock' = drop_tools_guard(lock, outcome)
        /\ UNCHANGED <<tools, registered, sessVars, toolVars>>

\* list_flights: a Discover call arrives and waits for the mutex
ListFlightsBegin ==
    \E c \in CallIds :
        /\ Quiet
        /\ NextCall(c)
        /\ calls' = [calls EXCEPT ![c] = [IdleCall EXCEPT !.st = "lock",
                                                          !.op = "list_flights"]]
        /\ UNCHANGED <<tools, lock, registered, sessVars, toolVars>>

\* list_flights: the mutex is acquired, one descriptor per tool is built in the
\* order of the vector, and the guard is dropped on return
ListFlightsRead ==
    \E c \in CallIds :
        /\ Quiet
        /\ calls[c].st = "lock"
        /\ calls[c].op = "list_flights"
        /\ lock = 0
        /\ calls' = [calls EXCEPT
                        ![c].st = "done",
                        ![c].locked = TRUE,
                        ![c].out = Some([k |-> "flights",
                                         infos |-> [i \in 1..Len(tools) |->
                                                       FlightInfo(tools[i])]])]
        /\ UNCHANGED <<tools, lock, registered, sessVars, toolVars>>

\* mutant: the handler answers with an empty stream
unimplemented_empty(op) == [k |-> "records", recs |-> <<>>]

\* Err(Status::unimplemented("<op> is not implemented"))
unimplemented(op) == Status("Unimplemented")

\* get_schema, get_flight_info, poll_flight_info, do_exchange, do_put: the handler
\* returns Status::unimplemented at once
Unimplemented ==
    \E c \in CallIds, op \in UnimplementedOps :
        /\ Quiet
        /\ NextCall(c)
        /\ calls' = [calls EXCEPT ![c] =
                        [IdleCall EXCEPT !.st = "done",
                                         !.op = op,
                                         !.out = Some(unimplemented(op))]]
        /\ UNCHANGED <<tools, lock, registered, sessVars, toolVars>>

\* handshake: one HandshakeResponse with an empty payload
Handshake ==
    \E c \in CallIds :
        /\ Quiet
        /\ NextCall(c)
        /\ calls' = [calls EXCEPT ![c] =
                        [IdleCall EXCEPT !.st = "done",
                                         !.op = "handshake",
                                         !.out = Some([k |-> "handshake",
                                                       recs |-> <<[payload |-> <<>>]>>])]]
        /\ UNCHANGED <<tools, lock, registered, sessVars, toolVars>>

\* list_actions: the one action type the service knows
ListActions ==
    \E c \in CallIds :
        /\ Quiet
        /\ NextCall(c)
        /\ calls' = [calls EXCEPT ![c] =
                        [IdleCall EXCEPT !.st = "done",
                                         !.op = "list_actions",
                                         !.out = Some([k |-> "actions",
                                                       recs |-> <<[type |-> "execute"]>>])]]
        /\ UNCHANGED <<tools, lock, registered, sessVars, toolVars>>

\* do_get: a bulk get arrives; a ticket that is no UTF-8 is refused, any other goes
\* on to wait for the mutex
DoGetBegin ==
    \E c \in CallIds, ticket \in Tickets :
        /\ Quiet
        /\ NextCall(c)
        /\ LET text == from_utf8(ticket)
           IN  calls' = [calls EXCEPT ![c] =
                   [IdleCall EXCEPT !.st = IF text.some THEN "lock" ELSE "done",
                                    !.op = "do_get",
                                    !.body = ticket,
                                    !.out = IF text.some THEN None
                                            ELSE Some(Status("InvalidArgument"))]]
        /\ UNCHANGED <<tools, lock, registered, sessVars, toolVars>>

\* do_get: the mutex is acquired and the tool looked up; the reply is one record
\* with the name and the description of the tool, or NotFound
DoGetRead ==
    \E c \in CallIds :
        /\ Quiet
        /\ calls[c].st = "lock"
        /\ calls[c].op = "do_get"
        /\ lock = 0
        /\ LET i == find(tools, calls[c].body)
           IN  calls' = [calls EXCEPT
                   ![c].st = "done",
                   ![c].locked = TRUE,
                   ![c].tool = i,
                   ![c].out = IF i = 0 THEN Some(Status("NotFound"))
                              ELSE Some([k |-> "data",
                                         recs |-> <<[name |-> tools[i].name,
                                                     description |-> description(tools[i])]>>])]
        /\ UNCHANGED <<tools, lock, registered, sessVars, toolVars>>

\* the calls the tools client makes: list_tools, and execute_tool, which sends the
\* action type execute and a payload with name and args
FromToolsClient(call) ==
    \/ call.op = "list_flights"
    \/ call.op = "do_action" /\ call.req.some

\* what can happen to a reply on its way to the client
Faults == { "none", "transport", "no record", "bad record", "bad name" }

\* the reply as the client stub is handed it: the reply of the service, a failure of
\* the transport, or what a peer that is not this service can answer: a stream with
\* no record, a record that is no ToolResult, a name that is no UTF-8
Delivered(reply, fault) ==
    CASE fault = "transport" -> [k |-> "transport"]
      [] fault = "no record" /\ reply.k = "records" -> [k |-> "records", recs |-> <<>>]
      [] fault = "bad record" /\ reply.k = "records" ->
            [k |-> "records", recs |-> <<[decodes |-> FALSE]>>]
      [] fault = "bad name" /\ reply.k = "flights" /\ reply.infos # <<>> ->
            [reply EXCEPT !.infos[1] = [flight_descriptor |-> Some([cmd |-> InvalidUtf8])]]
      [] OTHER -> reply

\* the client stub returns to its caller: list_tools or execute_tool on the reply
ClientReturn ==
    \E c \in CallIds, fault \in Faults :
        /\ calls[c].st = "done"
        /\ FromToolsClient(calls[c])
        /\ LET reply == Delivered(calls[c].out.v, fault)
           IN  calls' = [calls EXCEPT
                   ![c].st = "returned",
                   ![c].seen = Some(reply),
                   ![c].got = IF calls[c].op = "list_flights" THEN Some(list_tools(reply))
                              ELSE Some(client_execute_tool(reply))]
        /\ UNCHANGED <<tools, lock, registered, sessVars, toolVars>>

\* the call is over: nothing of it is kept
Retire ==
    \E c \in CallIds :
        /\ \/ calls[c].st = "returned"
           \/ calls[c].st = "done" /\ ~FromToolsClient(calls[c])
        /\ calls' = [calls EXCEPT ![c] = Retired]
        /\ UNCHANGED <<tools, lock, registered, sessVars, toolVars>>

NextSvc ==
    \/ RegisterTool
    \/ DoActionBegin \/ DoActionLock \/ DoActionExecDone
    \/ ListFlightsBegin \/ ListFlightsRead
    \/ Unimplemented \/ Handshake \/ ListActions
    \/ DoGetBegin \/ DoGetRead
    \/ ClientReturn \/ Retire

SpecSvc == Init /\ [][NextSvc]_vars

\* the handlers that take the mutex of the registry, and what follows their return
NextLock ==
    \/ RegisterTool
    \/ DoActionBegin \/ DoActionLock \/ DoActionExecDone
    \/ ListFlightsBegin \/ ListFlightsRead
    \/ ClientReturn \/ Retire

\* these handlers under their scheduler: a handler that can take the mutex takes it
\* (the mutex of tokio hands itself to its waiters in turn), the execute of a tool
\* returns, a reply is delivered and its call forgotten
SpecLock ==
    /\ Init /\ [][NextLock]_vars
    /\ WF_vars(DoActionLock)
    /\ WF_vars(DoActionExecDone)
    /\ WF_vars(ListFlightsRead)
    /\ WF_vars(ClientReturn)
    /\ WF_vars(Retire)

----------------------------------------------------------------------------
(* The tools of the server: one execute of web_search, from the args it is given
   and the answer of the search service to the ToolResult it returns. *)

\* usize::saturating_sub
saturating_sub(a, b) == IF a > b THEN a - b ELSE 0

\* Iterator::take
Take(seq, n) == SubSeq(seq, 1, IF n < Len(seq) THEN n ELSE Len(seq))

\* what execute returned, with the tool and the args it was called with
Returned(tool, args, out) == Some([tool |-> tool, args |-> args, out |-> out])

\* the args a web_search call can carry: query a text or missing; max_results
\* missing, a count, or -1, which is no usize
SearchArgs ==
    { [query |-> q, max_results |-> m] :
        q \in { None, Some(<<"rust">>) },
        m \in { None } \cup { Some(n) : n \in (-1)..(MaxTopics + 1) } }

\* serde_json::from_value::<WebSearchParams>
from_value_search(args) ==
    IF ~args.query.some THEN Err(ArgsError)
    ELSE IF args.max_results.some /\ args.max_results.v < 0 THEN Err(<<"invalid value">>)
    ELSE Ok([query |-> args.query.v, max_results |-> args.max_results])

\* a related topic of the answer: with its text and url, or a group with neither
Topics ==
    { [text |-> Some(<<"topic">>), url |-> Some(<<"url">>)],
      [text |-> None, url |-> None] }

\* what the search service answers: nothing (the request fails), a body that is
\* no DuckDuckGoResult, or one with an abstract, empty or not, and related topics
SearchResponses ==
    { [k |-> "transport"], [k |-> "not json"] } \cup
    { [k |-> "json", abstract_text |-> a, abstract_url |-> <<"url">>, related_topics |-> ts] :
        a \in { <<>>, <<"abstract">> },
        ts \in UNION { [1..n -> Topics] : n \in 0..MaxTopics } }

\* the SearchResult of a related topic
TopicResult(topic) == [title |-> topic.text.v, link |-> topic.url.v, snippet |-> topic.text.v]

\* perform_search: the main result when the abstract is not empty, then, of the
\* first max_results - 1 related topics, those that have a text and a url
perform_search(max_results, response) ==
    IF response.k = "transport" THEN Err(<<"error sending request">>)
    ELSE IF response.k = "not json" THEN Err(<<"expected value">>)
    ELSE LET main == IF response.abstract_text # <<>>
                     THEN << [title |-> <<"main result">>,
                              link |-> response.abstract_url,
                              snippet |-> response.abstract_text] >>
                     ELSE <<>>
             taken == Take(response.related_topics, saturating_sub(max_results, 1))
             kept == SelectSeq(taken, LAMBDA t : t.text.some /\ t.url.some)
         IN  Ok(main \o [i \in 1..Len(kept) |-> TopicResult(kept[i])])

\* Option::unwrap_or
unwrap_or(opt, default) == IF opt.some THEN opt.v ELSE default

\* WebSearchTool::execute
web_search_execute(args, response) ==
    LET params == from_value_search(args)
    IN  IF ~params.ok THEN Ok(Failure(params.e))
        ELSE LET max_results == unwrap_or(params.v.max_results, 5)
                 found == perform_search(max_results, response)
             IN  IF found.ok
                 THEN Ok([success |-> TRUE,
                          data |-> [query |-> params.v.query, results |-> found.v],
                          error |-> None])
                 ELSE Ok(Failure(found.e))

\* one call of web_search
WebSearchExecute ==
    \E args \in SearchArgs, response \in SearchResponses :
        /\ walk = NoWalk
        /\ tool_ret = None
        /\ tool_ret' = Returned("tools::WebSearchTool", args, web_search_execute(args, response))
        /\ UNCHANGED <<walk, tools, lock, calls, registered, sessVars>>

----------------------------------------------------------------------------
(* The tools of the server: one execute of file_tool. *)

FileOperations == { "convert", "compress", "decompress", "rename", "organize" }

\* the args a file_tool call can carry: operation one of the five or none of them,
\* input a path or missing, output and options given or not
FileToolArgs ==
    { [operation |-> op, input |-> i, output |-> o, options |-> opt] :
        op \in { None } \cup { Some(f) : f \in FileOperations },
        i \in { None, Some(<<"in.docx">>) },
        o \in { None, Some(<<"out.pdf">>) },
        opt \in { None, Some([format |-> <<"pdf">>]) } }

\* serde_json::from_value::<FileToolParams>: operation and input are required
from_value_file_tool(args) ==
    IF ~args.operation.some THEN Err(<<"unknown variant">>)
    ELSE IF ~args.input.some THEN Err(ArgsError)
    ELSE Ok([operation |-> args.operation.v, input |-> args.input.v,
             output |-> args.output, options |-> args.options])

\* what convert_file finds on the disk: the input is there or not, the converter
\* succeeds or not, the output can be read afterwards or not
Disks == [input_exists : BOOLEAN, converts : BOOLEAN, output_readable : BOOLEAN]

\* FileTool::convert_file
convert_file(params, disk) ==
    IF ~params.output.some THEN Err(<<"output path required">>)
    ELSE IF ~params.options.some THEN Err(<<"convert options required">>)
    ELSE IF ~disk.input_exists THEN Err(<<"input file does not exist">>)
    ELSE IF ~disk.converts THEN Err(<<"conversion failed">>)
    ELSE IF ~disk.output_readable THEN Err(<<"No such file or directory">>)
    ELSE Ok([success |-> TRUE,
             message |-> <<"converted">>,
             output_path |-> Some(params.output.v),
             details |-> Some([original_size |-> 2, processed_size |-> 1])])
             \* processing_time, a reading of the clock, is left out

\* FileTool::execute
file_tool_execute(args, disk) ==
    LET params == from_value_file_tool(args)
    IN  IF ~params.ok THEN Ok(Failure(params.e))
        ELSE LET result == IF params.v.operation = "convert"
                           THEN convert_file(params.v, disk)
                           ELSE Err(<<"not implemented">>)
             IN  IF result.ok
                 THEN Ok([success |-> TRUE, data |-> result.v, error |-> None])
                 ELSE Ok(Failure(result.e))

\* one call of file_tool
FileToolExecute ==
    \E args \in FileToolArgs, disk \in Disks :
        /\ walk = NoWalk
        /\ tool_ret = None
        /\ tool_ret' = Returned("tools::FileTool", args, file_tool_execute(args, disk))
        /\ UNCHANGED <<walk, tools, lock, calls, registered, sessVars>>

----------------------------------------------------------------------------
(* The tools of the server: one execute of file_analyzer, the walk over the
   directory step by step. The tool of the tools module walks with a stack of
   paths, the tool of the server binary calls itself for every directory below. *)

\* the files a walk can meet: a small one with an extension to its name, a larger
\* one without
Files == { [size |-> 1, ext |-> Some("txt")], [size |-> 2, ext |-> None] }
\* paths on the stack of the walk of the tools module at once
MaxEntries == 2

\* the args a file_analyzer call can carry
AnalyzerArgs ==
    { [path |-> p, recursive |-> r] :
        p \in { None, Some(<<"/tmp">>) }, r \in { None, Some(TRUE), Some(FALSE) } }

\* serde_json::from_value::<FileAnalyzerParams>: both fields are required
from_value_analyzer(args) ==
    IF args.path.some /\ args.recursive.some
    THEN Ok([path |-> args.path.v, recursive |-> args.recursive.v])
    ELSE Err(ArgsError)

\* the FileAnalysis analyze_directory starts from
NewAnalysis ==
    [total_size |-> 0, file_count |-> 0, extension_stats |-> <<>>, largest_files |-> <<>>]

\* one activation of analyze_directory: its analysis and, for the record, the files
\* it has counted, those of the directories below that it has merged included, and
\* whether it has merged any
NewFrame == [analysis |-> NewAnalysis, counted |-> {}, merged |-> FALSE]

\* Vec::truncate
truncate(v, len) == Take(v, len)

\* the place of entry e in a list sorted by size, largest first: behind every
\* entry that is as large or larger
InsertBySize(sorted, e) ==
    LET k == Cardinality({ i \in 1..Len(sorted) : sorted[i].size >= e.size })
    IN  SubSeq(sorted, 1, k) \o <<e>> \o SubSeq(sorted, k + 1, Len(sorted))

\* mutant: the list is left in the order the entries were pushed
sort_by_unsorted(v) == v

\* largest_files.sort_by(|a, b| b.1.cmp(&a.1)): a stable sort, largest first
RECURSIVE sort_by(_)
sort_by(v) ==
    IF v = <<>> THEN <<>>
    ELSE InsertBySize(sort_by(SubSeq(v, 1, Len(v) - 1)), v[Len(v)])

\* largest_files.sort_by_key(|(_, size)| Reverse(*size)): the same order
sort_by_key(v) == sort_by(v)

\* *extension_stats.entry(ext).or_insert(0) += count
add_extension(stats, ext, count) ==
    [e \in DOMAIN stats \cup {ext} |->
        (IF e \in DOMAIN stats THEN stats[e] ELSE 0) + (IF e = ext THEN count ELSE 0)]

\* tools::FileAnalyzerTool::analyze_directory, a path that is a file whose metadata
\* can be read
process_file(analysis, path, size, ext) ==
    [total_size |-> analysis.total_size + size,
     file_count |-> analysis.file_count + 1,
     extension_stats |-> IF ext.some THEN add_extension(analysis.extension_stats, ext.v, 1)
                         ELSE analysis.extension_stats,
     largest_files |->
         truncate(sort_by(Append(analysis.largest_files, [path |-> path, size |-> size])), 5)]

\* main::FileAnalyzerTool::analyze_directory, an entry that is a file
process_entry(analysis, path, size, ext) ==
    [file_count |-> analysis.file_count + 1,
     total_size |-> analysis.total_size + size,
     extension_stats |-> IF ext.some THEN add_extension(analysis.extension_stats, ext.v, 1)
                         ELSE analysis.extension_stats,
     largest_files |->
         truncate(sort_by_key(Append(analysis.largest_files, [path |-> path, size |-> size])), 5)]

\* main::FileAnalyzerTool::analyze_directory, an entry that is a directory: the
\* analysis of the directory is merged into this one
merge_sub(analysis, sub) ==
    [total_size |-> analysis.total_size + sub.total_size,
     file_count |-> analysis.file_count + sub.file_count,
     extension_stats |->
         [e \in DOMAIN analysis.extension_stats \cup DOMAIN sub.extension_stats |->
             (IF e \in DOMAIN analysis.extension_stats THEN analysis.extension_stats[e] ELSE 0)
             + (IF e \in DOMAIN sub.extension_stats THEN sub.extension_stats[e] ELSE 0)],
     largest_files |->
         truncate(sort_by_key(analysis.largest_files \o sub.largest_files), 5)]

\* the result execute builds from an analysis
Analysed(analysis) == [success |-> TRUE, data |-> analysis, error |-> None]

\* a walk that has just been started
StartWalk(impl, args, recursive) ==
    [st |-> "walking", impl |-> impl, args |-> args, recursive |-> recursive, root |-> TRUE,
     pending |-> IF impl = "tools::FileAnalyzerTool" THEN 1 ELSE 0,
     seen |-> 0, frames |-> <<NewFrame>>]

\* the file the walk meets next is counted in frame f
Counting(f, analysis, size) ==
    [walk EXCEPT !.seen = @ + 1,
                 !.root = FALSE,
                 !.frames[f] = [@ EXCEPT
                     !.analysis = analysis,
                     !.counted = @ \cup {[path |-> walk.seen + 1, size |-> size]}]]

\* tools::FileAnalyzerTool::execute up to the loop of analyze_directory: args that
\* do not decode and a path that does not exist are results that report a failure
FileAnalyzerExecute ==
    \E args \in AnalyzerArgs, exists \in BOOLEAN :
        /\ walk = NoWalk
        /\ tool_ret = None
        /\ LET params == from_value_analyzer(args)
           IN  IF ~params.ok
               THEN /\ tool_ret' = Returned("tools::FileAnalyzerTool", args, Ok(Failure(params.e)))
                    /\ UNCHANGED walk
               ELSE IF ~exists
               THEN /\ tool_ret' = Returned("tools::FileAnalyzerTool", args,
                                            Ok(Failure(<<"path does not exist">>)))
                    /\ UNCHANGED walk
               ELSE /\ walk' = StartWalk("tools::FileAnalyzerTool", args, params.v.recursive)
                    /\ UNCHANGED tool_ret
        /\ UNCHANGED <<tools, lock, calls, registered, sessVars>>

\* the walk of the tools module is under way and has a path on its stack
Popping ==
    /\ walk.st = "walking"
    /\ walk.impl = "tools::FileAnalyzerTool"
    /\ walk.pending > 0

\* the path popped is a file whose metadata can be read
PopFile ==
    \E file \in Files :
        /\ Popping
        /\ walk.seen < MaxFiles
        /\ walk' = [Counting(1, process_file(walk.frames[1].analysis, walk.seen + 1,
                                             file.size, file.ext), file.size)
                       EXCEPT !.pending = @ - 1]
        /\ UNCHANGED <<tool_ret, tools, lock, calls, registered, sessVars>>

\* the path popped is a directory, the one asked for or any when recursive: its
\* entries are pushed
PopDir ==
    \E entries \in 0..MaxEntries :
        /\ Popping
        /\ walk.recursive \/ walk.root
        /\ walk.pending - 1 + entries <= MaxEntries
        /\ walk' = [walk EXCEPT !.pending = @ - 1 + entries, !.root = FALSE]
        /\ UNCHANGED <<tool_ret, tools, lock, calls, registered, sessVars>>

\* the path popped is a file whose metadata cannot be read, a directory that is not
\* entered or cannot be listed, or neither file nor directory
PopOther ==
    /\ Popping
    /\ walk' = [walk EXCEPT !.pending = @ - 1, !.root = FALSE]
    /\ UNCHANGED <<tool_ret, tools, lock, calls, registered, sessVars>>

\* the stack is empty: analyze_directory returns the analysis and execute the result
WalkReturn ==
    /\ walk.st = "walking"
    /\ walk.impl = "tools::FileAnalyzerTool"
    /\ walk.pending = 0
    /\ walk' = [walk EXCEPT !.st = "ok"]
    /\ tool_ret' = Returned(walk.impl, walk.args, Ok(Analysed(walk.frames[1].analysis)))
    /\ UNCHANGED <<tools, lock, calls, registered, sessVars>>

\* main::FileAnalyzerTool::execute up to the loop of analyze_directory: args that
\* do not decode are returned as an error, a directory that cannot be listed is a
\* result that reports a failure
MainAnalyzerExecute ==
    \E args \in AnalyzerArgs, listed \in BOOLEAN :
        /\ walk = NoWalk
        /\ tool_ret = None
        /\ LET params == from_value_analyzer(args)
           IN  IF ~params.ok
               THEN /\ tool_ret' = Returned("main::FileAnalyzerTool", args, Err(params.e))
                    /\ UNCHANGED walk
               ELSE IF ~listed
               THEN /\ tool_ret' = Returned("main::FileAnalyzerTool", args,
                                            Ok(Failure(<<"No such file or directory">>)))
                    /\ UNCHANGED walk
               ELSE /\ walk' = StartWalk("main::FileAnalyzerTool", args, params.v.recursive)
                    /\ UNCHANGED tool_ret
        /\ UNCHANGED <<tools, lock, calls, registered, sessVars>>

\* the walk of the server binary is under way
Listing ==
    /\ walk.st = "walking"
    /\ walk.impl = "main::FileAnalyzerTool"

\* the next entry of the directory being listed is a file
EntryFile ==
    \E file \in Files :
        /\ Listing
        /\ walk.seen < MaxFiles
        /\ LET f == Len(walk.frames)
           IN  walk' = Counting(f, process_entry(walk.frames[f].analysis, walk.seen + 1,
                                                 file.size, file.ext), file.size)
        /\ UNCHANGED <<tool_ret, tools, lock, calls, registered, sessVars>>

\* the next entry is a directory and the analysis recursive: analyze_directory is
\* called for it
EntryDir ==
    /\ Listing
    /\ walk.recursive
    /\ Len(walk.frames) <= MaxDepth
    /\ walk' = [walk EXCEPT !.frames = Append(@, NewFrame), !.root = FALSE]
    /\ UNCHANGED <<tool_ret, tools, lock, calls, registered, sessVars>>

\* the directory below has no entry left: its analysis is merged into the one of
\* the directory above
SubReturn ==
    /\ Listing
    /\ Len(walk.frames) > 1
    /\ LET f == Len(walk.frames)
           sub == walk.frames[f]
           above == walk.frames[f - 1]
       IN  walk' = [walk EXCEPT !.frames =
                        [SubSeq(@, 1, f - 1) EXCEPT ![f - 1] =
                            [analysis |-> merge_sub(above.analysis, sub.analysis),
                             counted |-> above.counted \cup sub.counted,
                             merged |-> TRUE]]]
    /\ UNCHANGED <<tool_ret, tools, lock, calls, registered, sessVars>>

\* listing a directory or reading the metadata of an entry fails: the error goes up
\* through every activation with ? and execute returns a result that reports it
EntryFails ==
    /\ Listing
    /\ walk' = [walk EXCEPT !.st = "err", !.frames = <<>>]
    /\ tool_ret' = Returned(walk.impl, walk.args, Ok(Failure(<<"Permission denied">>)))
    /\ UNCHANGED <<tools, lock, calls, registered, sessVars>>

\* the directory asked for has no entry left
ListingReturn ==
    /\ Listing
    /\ Len(walk.frames) = 1
    /\ walk' = [walk EXCEPT !.st = "ok"]
    /\ tool_ret' = Returned(walk.impl, walk.args, Ok(Analysed(walk.frames[1].analysis)))
    /\ UNCHANGED <<tools, lock, calls, registered, sessVars>>

NextTools ==
    \/ WebSearchExecute
    \/ FileToolExecute
    \/ FileAnalyzerExecute \/ PopFile \/ PopDir \/ PopOther \/ WalkReturn
    \/ MainAnalyzerExecute \/ EntryFile \/ EntryDir \/ SubReturn \/ EntryFails \/ ListingReturn

SpecTools == Init /\ [][NextTools]_vars


----------------------------------------------------------------------------
(* What a turn looks like from outside: read off the items the completion call *)
(* yielded, independently of the variables get_response_stream keeps.          *)

IsOk(item) == item.ok
NonEmpty(text) == text # <<>>

\* the completion call of this turn failed, at the request or on a later item
Failed == \E i \in 1..Len(received) : ~received[i].ok

\* the fragments the stream has yielded so far, in the order of arrival
OkContents ==
    LET oks == SelectSeq(received, IsOk)
    IN  [i \in 1..Len(oks) |-> oks[i].v]

AssembledText == Flatten(OkContents)
CallsOfTurn == parse_tool_calls(AssembledText)
Last(seq) == seq[Len(seq)]
CountRole(msgs, role) == Cardinality({i \in 1..Len(msgs) : msgs[i].role = role})
CountOk(ts) == Cardinality({i \in 1..Len(ts) : ts[i] = "ok"})

----------------------------------------------------------------------------
\* C1: when the completion call of a turn fails, at the request or on a later
\* fragment, get_response_stream returns the error at once, and the step main takes
\* next leaves the history equal to the history before the user message of the turn
\* was added (no assistant message, the user message removed) and main back at the
\* prompt, where the same input can be given again.
C1_FailedTurnRollsBack ==
    [][Failed => /\ pc = "ret"
                 /\ ret.st = "err"
                 /\ messages = add_user_message(before, Last(messages).content)
                 /\ messages' = before
                 /\ pc' = "input"]_vars

\* a turn that failed after an earlier turn succeeded, rolled back
C1_Witness ==
    /\ pc = "input"
    /\ turns = <<"ok", "err">>
    /\ messages = before
    /\ Len(messages) = 3

\* C2: the number of assistant messages equals the number of turns whose
\* get_response_stream succeeded; after a successful turn the history is the history
\* before the turn followed by the user message and the assistant message of that
\* turn; every assistant message directly follows a user message; and between turns
\* the last message is never a user message.
C2_NoAssistantForFailedTurn ==
    /\ CountRole(messages, "assistant") = CountOk(turns)
    /\ \A i \in 1..Len(messages) :
          messages[i].role = "assistant" => i > 1 /\ messages[i - 1].role = "user"
    /\ (pc \in {"input", "exit"} /\ messages # <<>>) => Last(messages).role # "user"
    /\ (pc = "input" /\ turns # <<>> /\ Last(turns) = "ok") =>
          /\ Len(messages) = Len(before) + 2
          /\ SubSeq(messages, 1, Len(before)) = before
          /\ messages[Len(before) + 1].role = "user"
          /\ messages[Len(before) + 2].role = "assistant"
    /\ (pc = "input" /\ turns # <<>> /\ Last(turns) = "err") => messages = before

\* a failed turn followed by a successful one
C2_Witness ==
    /\ pc = "input"
    /\ turns = <<"err", "ok">>
    /\ CountRole(messages, "assistant") = 1
    /\ Len(messages) = 3

\* C3: a Dispatch call is issued, or in flight, only when set_tools_client was
\* called before get_response_stream of the turn was entered.
C3_DispatchOnlyWithClient ==
    (dispatched # <<>> \/ inflight > 0 \/ pc = "await") =>
        client_at_start /\ tools_client.some

C3_Witness ==
    /\ pc = "await"
    /\ dispatched # <<>>
    /\ client_at_start

\* C4: without a tools client, get_response_stream over a completed stream whose
\* text holds tool-call blocks returns Ok with exactly the assembled text, issues no
\* Dispatch, runs no tool call and gives the callback nothing but the fragments of
\* the stream.
C4_NoClientTextUnchanged ==
    (pc = "ret" /\ ~tools_client.some /\ ~Failed) =>
        LET text == AssembledText
        IN  parse_tool_calls(text) # <<>> =>
                /\ ret = [st |-> "ok", v |-> text]
                /\ dispatched = <<>>
                /\ replied = <<>>
                /\ inflight = 0
                /\ sink = SelectSeq(OkContents, NonEmpty)

C4_Witness ==
    /\ pc = "ret"
    /\ ~tools_client.some
    /\ ret.st = "ok"
    /\ CallsOfTurn # <<>>
    /\ ret.v = AssembledText

\* C5 (as amended): while the stream is read the callback has been called once per
\* non-empty fragment received, in the order of arrival, each before the next item
\* is pulled (empty fragments are skipped); the fragments given to the callback
\* concatenate to the assembled text, which is the text later scanned for tool calls.
C5_SinkFollowsNonEmptyFragments ==
    LET given == SelectSeq(OkContents, NonEmpty)
        text == AssembledText
    IN  /\ (pc = "stream" \/ (pc = "ret" /\ Failed)) =>
              /\ sink = given
              /\ Flatten(sink) = text
              /\ full_response = text
        /\ (pc \in {"tool", "await", "ret"} /\ ~Failed) =>
              /\ SubSeq(sink, 1, Len(given)) = given
              /\ Flatten(SubSeq(sink, 1, Len(given))) = text
              /\ parsed = <<text>>

\* C5 as stated: one callback call per fragment received
C5_SinkOncePerFragment ==
    pc = "stream" => sink = OkContents

\* an empty fragment between two others
C5_Witness ==
    /\ pc = "stream"
    /\ Len(OkContents) = 2
    /\ OkContents[1] = <<>>
    /\ sink = << OkContents[2] >>
    /\ sink # << <<>> >>

\* C6: nothing is parsed or dispatched before the stream has ended; after it has
\* ended parse_tool_calls has been applied exactly once, to the whole assembled
\* text, and the requests the turn runs are those of the whole text, however the
\* text was cut into fragments; a failed stream is never parsed.
C6_DetectionAfterCompletion ==
    /\ pc \in {"request", "stream"} => parsed = <<>> /\ dispatched = <<>>
    /\ Failed => parsed = <<>> /\ dispatched = <<>>
    /\ (pc \in {"tool", "await", "ret"} /\ ~Failed) => parsed = <<AssembledText>>
    /\ pc \in {"tool", "await"} =>
          LET found == CallsOfTurn
          IN  tool_calls = SubSeq(found, Len(replied) + 1, Len(found))

\* a block that arrived split over two fragments
C6_Witness ==
    /\ pc = "tool"
    /\ OkContents = << <<OPEN>>, <<JA, CLOSE>> >>
    /\ Len(tool_calls) = 1
    /\ tool_calls[1].name = <<"file_analyzer">>

\* C7: at most one tool call of the turn is in flight; the requests are dispatched
\* in the order of their blocks in the text; the k-th Dispatch is issued only after
\* the calls before it have returned.
C7_SequentialToolCalls ==
    /\ inflight \in {0, 1}
    /\ inflight = 1 <=> pc = "await"
    /\ Len(dispatched) = Len(replied) + inflight
    /\ dispatched # <<>> =>
          LET found == CallsOfTurn
          IN  /\ Len(dispatched) <= Len(found)
              /\ dispatched = SubSeq(found, 1, Len(dispatched))

\* the second of two different requests is in flight, the first has returned
C7_Witness ==
    /\ pc = "await"
    /\ Len(dispatched) = 2
    /\ dispatched[1] # dispatched[2]
    /\ Len(replied) = 1

RECURSIVE AddedUpTo(_, _)
\* the text the first n tool calls of the turn add to the value that
\* get_response_stream returns: for each the separator and its result or error text
AddedUpTo(requests, n) ==
    IF n = 0 THEN <<>>
    ELSE AddedUpTo(requests, n - 1) \o <<SEP>> \o ToolText(requests[n].name, replied[n])

\* C8: with a client attached and a completed stream with N parsed requests,
\* get_response_stream returns Ok after exactly N tool calls, whatever the outcome
\* of each (transport error, protocol fault, empty reply, undecodable reply,
\* success=false), and every outcome is in the returned text as inline text.
C8_ToolFailureNeverAborts ==
    (pc = "ret" /\ tools_client.some /\ ~Failed) =>
        LET text == AssembledText
            found == parse_tool_calls(text)
        IN  /\ ret.st = "ok"
            /\ Len(dispatched) = Len(found)
            /\ Len(replied) = Len(found)
            /\ ret.v = text \o AddedUpTo(found, Len(found))

\* two calls, the first failed in transport, the second came back success=false
C8_Witness ==
    /\ pc = "ret"
    /\ ret.st = "ok"
    /\ Len(replied) = 2
    /\ ~replied[1].ok
    /\ replied[2].ok /\ ~replied[2].v.success

\* the fragments the callback was given after the stream ended
ToolPhaseSink ==
    SubSeq(sink, Len(SelectSeq(OkContents, NonEmpty)) + 1, Len(sink))

\* the text the tool calls added to the returned value
ReturnedAdded == SubSeq(ret.v, Len(AssembledText) + 1, Len(ret.v))

\* C9 as stated: the text the callback has seen for the tool phase and the text
\* added to the returned value are the same
C9_SinkTextEqualsAddedText ==
    (pc = "ret" /\ ret.st = "ok" /\ ~Failed) => Flatten(ToolPhaseSink) = ReturnedAdded

\* C9 (as amended): for every tool call run, in order, the callback is given three
\* fragments, the progress line naming the tool, the separator and the result or
\* error text; the separator and the text, not the progress line, are what is
\* appended to the returned value.
C9_SinkResultTextEqualsAddedText ==
    (pc = "ret" /\ ret.st = "ok" /\ ~Failed) =>
        LET found == CallsOfTurn
            shown == ToolPhaseSink
        IN  /\ Len(shown) = 3 * Len(replied)
            /\ \A i \in 1..Len(replied) :
                  /\ shown[3 * i - 2] = ProgressText(found[i].name)
                  /\ shown[3 * i - 1] = <<SEP>>
                  /\ shown[3 * i] = ToolText(found[i].name, replied[i])
            /\ ReturnedAdded = AddedUpTo(found, Len(replied))

C9_Witness ==
    /\ pc = "ret"
    /\ ret.st = "ok"
    /\ Len(replied) = 2
    /\ replied[1].ok /\ replied[1].v.success
    /\ Len(ToolPhaseSink) = 6

\* C10: a Dispatch call whose action type is not "execute" is answered with an
\* invalid-argument fault in the step that takes it up: the mutex of the registry is
\* not acquired, the payload is not decoded, no tool is run, and neither the
\* registry nor the mutex changes; nothing happens to the call afterwards.
C10_OtherActionRefusedBeforeRegistry ==
    /\ [](\A c \in CallIds :
            (calls[c].op = "do_action" /\ calls[c].type # "execute") =>
                /\ calls[c].st = "done"
                /\ calls[c].out = Some(Status("InvalidArgument"))
                /\ ~calls[c].locked
                /\ ~calls[c].decoded
                /\ calls[c].invoked = <<>>
                /\ lock # c)
    /\ [][\A c \in CallIds :
            (calls[c].st = "idle" /\ calls'[c].op = "do_action"
                /\ calls'[c].type # "execute") => tools' = tools /\ lock' = lock]_vars

\* a call with another action type and a payload that would decode, refused while
\* the tool it names is registered
C10_Witness ==
    \E c \in CallIds :
        /\ calls[c].op = "do_action"
        /\ calls[c].type = "other"
        /\ calls[c].body = <<JA>>
        /\ calls[c].st = "done"
        /\ find(tools, <<"file_analyzer">>) # 0

----------------------------------------------------------------------------
(* What the dispatch service looks like from outside. *)

\* the payloads that are a request with a name and args
Decodable == { <<JA>>, <<JN>>, <<JE>>, <<JW>> }

\* the name a decodable payload asks for
NameOf(body) ==
    CASE body = <<JN>> -> <<"nonexistent_tool">>
      [] body = <<JW>> -> <<"web_search">>
      [] OTHER -> <<"file_analyzer">>

\* position i holds the first tool of that name, in registration order
IsFirstNamed(ts, i, name) ==
    /\ i \in 1..Len(ts)
    /\ ts[i].name = name
    /\ \A j \in 1..(i - 1) : ts[j].name # name

NoneNamed(ts, name) == \A i \in 1..Len(ts) : ts[i].name # name

\* call c is a Dispatch with the action type execute and a decodable payload
IsDispatch(c) ==
    calls[c].op = "do_action" /\ calls[c].type = "execute" /\ calls[c].body \in Decodable

\* C11: a Dispatch call with the action type execute and a decodable request runs
\* execute on at most one tool; the step that looks the tool up either runs the first
\* tool, in registration order, whose name is the name of the request (also when
\* several tools have that name), or, exactly when no registered tool has that name,
\* answers NotFound and runs no tool. No later step runs another tool or turns the
\* answer into NotFound.
C11_DispatchRunsFirstMatch ==
    /\ [](\A c \in CallIds :
            IsDispatch(c) =>
                /\ calls[c].st \in {"lock", "exec", "done", "returned"}
                /\ calls[c].params = Some([name |-> NameOf(calls[c].body),
                                           args |-> calls[c].params.v.args])
                /\ Len(calls[c].invoked) <= 1
                /\ (calls[c].st = "lock" => calls[c].invoked = <<>>)
                /\ (calls[c].st = "exec" => Len(calls[c].invoked) = 1))
    /\ [][\A c \in CallIds :
            (IsDispatch(c) /\ calls[c].st = "lock" /\ calls'[c].st # "lock") =>
                IF NoneNamed(tools, NameOf(calls[c].body))
                THEN /\ calls'[c].st = "done"
                     /\ calls'[c].out = Some(Status("NotFound"))
                     /\ calls'[c].invoked = <<>>
                ELSE /\ calls'[c].st = "exec"
                     /\ Len(calls'[c].invoked) = 1
                     /\ IsFirstNamed(tools, calls'[c].invoked[1], NameOf(calls[c].body))
                     /\ calls'[c].out = None]_vars
    /\ [][\A c \in CallIds :
            (IsDispatch(c) /\ calls[c].st = "exec" /\ calls'[c].st # "exec") =>
                /\ calls'[c].st = "done"
                /\ calls'[c].invoked = calls[c].invoked
                /\ calls'[c].out # Some(Status("NotFound"))]_vars

\* two tools of the same name are registered, and a Dispatch for that name is
\* inside the execute of the first
C11_Witness ==
    \E c \in CallIds :
        /\ IsDispatch(c)
        /\ calls[c].st = "exec"
        /\ calls[c].invoked = <<1>>
        /\ Len(tools) = 2
        /\ tools[1].name = tools[2].name
        /\ tools[1] # tools[2]

\* the calls that are inside the execute of a tool
Executing == {c \in CallIds : calls[c].st = "exec"}

\* C12: the mutex of the registry is held for the lookup of a Dispatch only, not
\* while the tool runs: whenever a call is inside the execute of its tool, the mutex
\* is free, so that another Dispatch can look its tool up and run it at the same
\* time and a Discover can read the registry and complete.
C12_LockFreeDuringExecute == \A c \in Executing : lock # c

\* at most one call is inside execute at a time, and no Discover completes then
C12_ExecutionsSerialized ==
    /\ Cardinality(Executing) <= 1
    /\ [][\A c \in CallIds :
            (calls[c].op = "list_flights" /\ calls[c].st = "lock" /\ calls'[c].st = "done")
                => Executing = {}]_vars

\* C13: the execute of a tool never returns an error: whatever goes wrong inside,
\* args that do not decode into the parameter type of the tool included, comes back
\* as a result with success false and an error text, so a Dispatch that found its
\* tool is always answered with a reply record and never with an internal fault.
C13_ToolFailuresAreData ==
    \A c \in CallIds :
        (IsDispatch(c) /\ calls[c].ran.some) =>
            /\ calls[c].ran.v.ok
            /\ calls[c].out.v.k = "records"
            /\ (calls[c].body = <<JE>> =>
                    /\ ~calls[c].ran.v.v.success
                    /\ calls[c].ran.v.v.error.some)

\* schema introspection, bulk put and bidirectional exchange
NotOffered == {"get_schema", "get_flight_info", "poll_flight_info", "do_exchange", "do_put"}

\* C14 as stated: schema introspection, bulk get, bulk put and bidirectional
\* exchange are all answered with an unimplemented fault, and none returns data.
C14_AllOthersUnimplemented ==
    \A c \in CallIds :
        (calls[c].op \in NotOffered \cup {"do_get"} /\ calls[c].st = "done") =>
            calls[c].out = Some(Status("Unimplemented"))

\* C14, amended: schema introspection, bulk put and bidirectional exchange are
\* answered with an unimplemented fault in the step that takes them up, without
\* waiting for the mutex of the registry and without data. Bulk get is implemented:
\* a ticket that is no UTF-8 is refused with invalid argument; otherwise the lookup
\* answers NotFound exactly when no registered tool has the name of the ticket, and
\* else one record with the name and the description of the first tool of that name.
C14_UnimplementedExceptBulkGet ==
    /\ [](\A c \in CallIds :
            calls[c].op \in NotOffered =>
                /\ calls[c].st = "done"
                /\ calls[c].out = Some(Status("Unimplemented"))
                /\ ~calls[c].locked
                /\ lock # c)
    /\ [](\A c \in CallIds :
            calls[c].op = "do_get" =>
                /\ calls[c].st \in {"lock", "done"}
                /\ (calls[c].body = InvalidUtf8 =>
                        /\ calls[c].st = "done"
                        /\ calls[c].out = Some(Status("InvalidArgument"))
                        /\ ~calls[c].locked)
                /\ (calls[c].st = "lock" => calls[c].out = None))
    /\ [][\A c \in CallIds :
            (calls[c].op = "do_get" /\ calls[c].st = "lock" /\ calls'[c].st # "lock") =>
                /\ calls'[c].st = "done"
                /\ lock' = lock
                /\ IF NoneNamed(tools, calls[c].body)
                   THEN calls'[c].out = Some(Status("NotFound"))
                   ELSE \E i \in 1..Len(tools) :
                           /\ IsFirstNamed(tools, i, calls[c].body)
                           /\ calls'[c].out =
                                 Some([k |-> "data",
                                       recs |-> <<[name |-> calls[c].body,
                                                   description |-> description(tools[i])]>>])
                ]_vars

\* a bidirectional exchange has been refused while a tool is registered
C14_Witness ==
    \E c \in CallIds :
        /\ calls[c].op = "do_exchange"
        /\ calls[c].st = "done"
        /\ tools # <<>>

\* C15: the registered tools are an append-only sequence. The registry is at every
\* moment the sequence of all tools register_tool was called with, in call order,
\* a tool whose name is registered already included; a registration happens with
\* the mutex free, adds one entry at the end and leaves the earlier entries as they
\* are; and no step of any call (Discover, Dispatch whatever its outcome, bulk get,
\* an operation that is not implemented) changes the registry.
C15_RegistryAppendOnly ==
    /\ [](tools = registered)
    /\ [][\/ tools' = tools
          \/ /\ lock = 0 /\ lock' = 0
             /\ Len(tools') = Len(tools) + 1
             /\ SubSeq(tools', 1, Len(tools)) = tools]_vars
    /\ [][calls' # calls => tools' = tools]_vars

\* a second tool of a registered name has been registered behind the first, and a
\* Dispatch has been answered
C15_Witness ==
    /\ Len(tools) = 2
    /\ tools[1].name = tools[2].name
    /\ tools[1] # tools[2]
    /\ \E c \in CallIds : calls[c].op = "do_action" /\ calls[c].st = "done"

\* the names a Discover reply carries, in the order of its descriptors
NamesIn(reply) == [i \in 1..Len(reply.infos) |-> reply.infos[i].flight_descriptor.v.cmd]

\* C16: the step of a Discover call that reads the registry answers with one
\* descriptor for every registered tool, carrying the name of the tool, in
\* registration order, tools of the same name included. list_tools, handed that
\* reply, returns exactly these names in this order; handed a reply in which a name
\* is no UTF-8 it fails with a decode error, and it returns names in no other case.
C16_DiscoverListsNamesInOrder ==
    /\ [][\A c \in CallIds :
            (calls[c].op = "list_flights" /\ calls[c].st = "lock" /\ calls'[c].st # "lock") =>
                /\ calls'[c].st = "done"
                /\ calls'[c].out.v.k = "flights"
                /\ Len(calls'[c].out.v.infos) = Len(tools)
                /\ \A i \in 1..Len(tools) :
                       calls'[c].out.v.infos[i].flight_descriptor = Some([cmd |-> tools[i].name])
                /\ NamesIn(calls'[c].out.v) = [i \in 1..Len(registered) |-> registered[i].name]
                /\ lock' = lock]_vars
    /\ [](\A c \in CallIds :
            (calls[c].op = "list_flights" /\ calls[c].st = "returned") =>
                /\ (calls[c].seen = calls[c].out => calls[c].got = Some(Ok(NamesIn(calls[c].out.v))))
                /\ (calls[c].seen.v.k = "flights"
                        /\ (\E i \in 1..Len(calls[c].seen.v.infos) :
                                NamesIn(calls[c].seen.v)[i] = <<"<not utf-8>">>)
                     => calls[c].got = Some(Err(<<"decode error">>)))
                /\ (calls[c].got.v.ok => calls[c].seen = calls[c].out))

\* list_tools has returned two equal names, of two tools registered under one name
C16_Witness ==
    \E c \in CallIds :
        /\ calls[c].op = "list_flights"
        /\ calls[c].st = "returned"
        /\ calls[c].got.v.ok
        /\ Len(calls[c].got.v.v) = 2
        /\ calls[c].got.v.v[1] = calls[c].got.v.v[2]
        /\ tools[1] # tools[2]

\* C17: execute_tool makes one Dispatch call and never a second one, whatever comes
\* back: once the service has answered, the call only returns to its caller. A
\* Dispatch whose tool returned a result answers with exactly one record, which
\* carries that result, and execute_tool handed that reply returns that result.
\* Handed a reply stream without a record it fails with "No result received from
\* tool execution"; handed a record that is no ToolResult it fails with a decode
\* error; and it returns a result in no other case than a first record that decodes.
C17_OneDispatchOneRecord ==
    /\ [][\A c \in CallIds :
            (IsDispatch(c) /\ calls[c].st \in {"done", "returned"} /\ calls'[c] # calls[c]) =>
                \/ /\ calls[c].st = "done"
                   /\ calls'[c] = [calls[c] EXCEPT !.st = "returned",
                                                   !.got = calls'[c].got,
                                                   !.seen = calls'[c].seen]
                \/ /\ calls[c].st = "returned"
                   /\ calls'[c].st = "retired"]_vars
    /\ [](\A c \in CallIds :
            (IsDispatch(c) /\ calls[c].ran.some /\ calls[c].ran.v.ok) =>
                /\ calls[c].out.v.k = "records"
                /\ Len(calls[c].out.v.recs) = 1
                /\ calls[c].out.v.recs[1].decodes
                /\ calls[c].out.v.recs[1].result = calls[c].ran.v.v)
    /\ [](\A c \in CallIds :
            (IsDispatch(c) /\ calls[c].st = "returned") =>
                LET reply == calls[c].seen.v
                    got == calls[c].got.v
                IN  /\ (calls[c].seen = calls[c].out /\ calls[c].ran.some /\ calls[c].ran.v.ok
                            => got = Ok(calls[c].ran.v.v))
                    /\ (reply.k = "records" /\ Len(reply.recs) = 0
                            => got = Err(<<"No result received from tool execution">>))
                    /\ (reply.k = "records" /\ Len(reply.recs) > 0 /\ ~reply.recs[1].decodes
                            => got = Err(<<"decode error">>))
                    /\ (got.ok => /\ reply.k = "records"
                                  /\ Len(reply.recs) > 0
                                  /\ reply.recs[1].decodes
                                  /\ got.v = reply.recs[1].result))

\* execute_tool has returned the result of a tool that succeeded
C17_Witness ==
    \E c \in CallIds :
        /\ IsDispatch(c)
        /\ calls[c].st = "returned"
        /\ calls[c].got.v.ok
        /\ calls[c].got.v.v.success
        /\ calls[c].got.v.v = calls[c].ran.v.v

C19_ErrorIsFaultResultIsRecord ==
    /\ [](\A c \in CallIds :
            (IsDispatch(c) /\ calls[c].ran.some) =>
                IF calls[c].ran.v.ok
                THEN calls[c].out = Some([k |-> "records",
                                          recs |-> <<[decodes |-> TRUE,
                                                      result |-> calls[c].ran.v.v]>>])
                ELSE calls[c].out = Some([k |-> "status", code |-> "Internal"]))
    /\ [][\A c \in CallIds :
            (IsDispatch(c) /\ calls[c].st = "exec" /\ calls'[c].st # "exec") =>
                /\ calls'[c].st = "done"
                /\ calls'[c].ran.some
                /\ calls'[c].out.some]_vars

\* a tool has returned a result that reports a failure, and it was relayed as a
\* record
C19_Witness ==
    \E c \in CallIds :
        /\ IsDispatch(c)
        /\ calls[c].st = "done"
        /\ calls[c].ran.some
        /\ calls[c].ran.v.ok
        /\ ~calls[c].ran.v.v.success
        /\ calls[c].out.v.k = "records"

\* a tool has returned an error, and the call was answered with a fault
C19_FaultReached ==
    \E c \in CallIds :
        /\ IsDispatch(c)
        /\ calls[c].st = "done"
        /\ calls[c].ran.some
        /\ ~calls[c].ran.v.ok
        /\ calls[c].out.v.k = "status"

----------------------------------------------------------------------------
(* What the parser is given and what it should find, read off the text alone. *)

\* the tokens that are one JSON object with a text field name
JsonObjects == {JA, JB, JN, JE, JW}

\* the request a JSON object of the model asks for; args is the empty mapping when
\* the object has none
RequestOf(tok) ==
    CASE tok = JA -> [name |-> <<"file_analyzer">>,
                      args |-> JsonObject(<<"{\"path\":\"/tmp\",\"recursive\":true}">>)]
      [] tok = JB -> [name |-> <<"web_search">>, args |-> JsonObject(<<"{}">>)]
      [] tok = JN -> [name |-> <<"nonexistent_tool">>, args |-> JsonObject(<<"{}">>)]
      [] tok = JE -> [name |-> <<"file_analyzer">>, args |-> JsonObject(<<"{}">>)]
      [] OTHER -> [name |-> <<"web_search">>, args |-> JsonObject(<<"{\"query\":\"rust\"}">>)]

\* a well-formed block starts at token i: opening fence, JSON object, closing fence
BlockAt(text, i) ==
    /\ i + 2 <= Len(text)
    /\ text[i] = OPEN
    /\ text[i + 1] \in JsonObjects
    /\ text[i + 2] = CLOSE

RECURSIVE BlocksFrom(_, _)
\* the requests of the well-formed blocks of a text from token i on, in text order
BlocksFrom(text, i) ==
    IF i > Len(text) THEN <<>>
    ELSE (IF BlockAt(text, i) THEN <<RequestOf(text[i + 1])>> ELSE <<>>)
         \o BlocksFrom(text, i + 1)

\* every fence of the text is the opening or the closing fence of a well-formed block
OnlyWellFormedBlocks(text) ==
    \A i \in 1..Len(text) :
        /\ (text[i] = OPEN => BlockAt(text, i))
        /\ (text[i] = CLOSE => i > 2 /\ BlockAt(text, i - 2))
        /\ (text[i] \in JsonObjects => i > 1 /\ BlockAt(text, i - 1))

\* the text of this turn has been parsed and no tool call has returned yet: the
\* requests the parser found are the requests the for loop has before it
JustParsed == Len(parsed) = 1 /\ tools_client.some /\ replied = <<>>

\* C20 as stated: whatever the text, the parser returns one request for every
\* well-formed fenced JSON block of the text, in text order, with the name and the
\* args of the block, and nothing else.
C20_OneRequestPerBlockAnyText ==
    JustParsed =>
        tool_calls = BlocksFrom(parsed[1], 1)

\* C20, amended: for a text in which every fence belongs to a well-formed fenced
\* JSON block (opening fence, one JSON object with a text name and maybe args,
\* closing fence) the parser returns one request for every block, in text order,
\* the i-th with the name and the args of the i-th block, args being the empty
\* mapping when the block has none; with no block no tool call is made.
C20_OneRequestPerBlock ==
    (JustParsed /\ OnlyWellFormedBlocks(parsed[1])) =>
        LET expected == BlocksFrom(parsed[1], 1)
        IN  /\ tool_calls = expected
            /\ (expected = <<>> <=> pc = "ret")
            /\ (expected # <<>> => pc \in {"tool", "await"})

\* two blocks in one text, the second without args
C20_Witness ==
    /\ JustParsed
    /\ pc = "tool"
    /\ OnlyWellFormedBlocks(parsed[1])
    /\ Len(tool_calls) = 2
    /\ tool_calls[1].name = <<"file_analyzer">>
    /\ tool_calls[2] = [name |-> <<"web_search">>, args |-> EmptyMap]

----------------------------------------------------------------------------
(* Blocks of every form, read off the text alone. *)

\* what stands between the fences of a block of one token: a structured document,
\* a document without name, name-colon-arguments, or plain words
BlockContents == JsonObjects \cup {JT, SHJ, SHS, PROSE}

\* the contents that are neither a structured document with a text name nor hold a
\* colon
MalformedContents == {PROSE}

\* the request a block content of one token asks for
RequestOfContent(tok) ==
    CASE tok = SHJ -> [name |-> <<"calc">>, args |-> JsonObject(<<"{\"x\":1}">>)]
      [] tok = SHS -> [name |-> <<"calc">>, args |-> JsonString(<<"a:b">>)]
      [] tok = JT -> [name |-> <<"{\"tool\"">>, args |-> JsonString(<<"\"x\"}">>)]
      [] OTHER -> RequestOf(tok)

\* a block starts at token i: opening fence, one content token, closing fence
DelimitedAt(text, i) ==
    /\ i + 2 <= Len(text)
    /\ text[i] = OPEN
    /\ text[i + 1] \in BlockContents
    /\ text[i + 2] = CLOSE

\* every fence of the text is the opening or the closing fence of such a block, and
\* every token with a colon is the content of one
OnlyDelimitedBlocks(text) ==
    \A i \in 1..Len(text) :
        /\ (text[i] = OPEN => DelimitedAt(text, i))
        /\ (text[i] = CLOSE => i > 2 /\ DelimitedAt(text, i - 2))
        /\ (text[i] \in BlockContents \ MalformedContents =>
                i > 1 /\ DelimitedAt(text, i - 1))

RECURSIVE GoodBlocksFrom(_, _)
\* the requests of the blocks of a text from token i on that are not malformed, in
\* text order
GoodBlocksFrom(text, i) ==
    IF i > Len(text) THEN <<>>
    ELSE (IF DelimitedAt(text, i) /\ text[i + 1] \notin MalformedContents
          THEN <<RequestOfContent(text[i + 1])>> ELSE <<>>)
         \o GoodBlocksFrom(text, i + 1)

RECURSIVE WithoutMalformed(_, _)
\* the text from token i on with every malformed block taken out, fences included
WithoutMalformed(text, i) ==
    IF i > Len(text) THEN <<>>
    ELSE IF DelimitedAt(text, i) /\ text[i + 1] \in MalformedContents
    THEN WithoutMalformed(text, i + 3)
    ELSE <<text[i]>> \o WithoutMalformed(text, i + 1)

\* C21: parse_tool_calls never fails as a whole: whatever the text, the turn goes
\* on to the tool calls or returns the text, never an error; and in a text made of
\* delimited blocks a block that is neither a structured document nor
\* name-colon-arguments is passed over: the requests are those of the other blocks,
\* in text order, the same as for the text with the malformed blocks taken out.
C21_MalformedBlocksSkipped ==
    JustParsed =>
        /\ pc \in {"tool", "ret"}
        /\ (pc = "ret" => ret = [st |-> "ok", v |-> parsed[1]])
        /\ OnlyDelimitedBlocks(parsed[1]) =>
              /\ tool_calls = GoodBlocksFrom(parsed[1], 1)
              /\ tool_calls = parse_tool_calls(WithoutMalformed(parsed[1], 1))

\* a malformed block between two good ones
C21_Witness ==
    /\ JustParsed
    /\ parsed[1] = <<OPEN, JA, CLOSE, OPEN, PROSE, CLOSE, OPEN, SHJ, CLOSE>>
    /\ Len(tool_calls) = 2
    /\ tool_calls[1].name = <<"file_analyzer">>
    /\ tool_calls[2].name = <<"calc">>

\* the block contents that are no structured document with a text name, and the
\* request each stands for: the name is what stands before the first colon, the args
\* what stands after it, both trimmed; the args are the JSON value when that is one
ShorthandContents ==
    { <<SHJ>>, <<SHS>>, <<JT>>, <<SHJ, SHS>>, <<PROSE, SHJ, SHS>> }

ShorthandRequest(content) ==
    CASE content = <<SHJ>> -> [name |-> <<"calc">>, args |-> JsonObject(<<"{\"x\":1}">>)]
      [] content = <<SHS>> -> [name |-> <<"calc">>, args |-> JsonString(<<"a:b">>)]
      [] content = <<JT>> ->
            [name |-> <<"{\"tool\"">>, args |-> JsonString(<<"\"x\"}">>)]
      [] content = <<SHJ, SHS>> ->
            [name |-> <<"calc">>, args |-> JsonString(<<"{\"x\":1}", SHS>>)]
      [] content = <<PROSE, SHJ, SHS>> ->
            [name |-> <<PROSE, "calc">>, args |-> JsonString(<<"{\"x\":1}", SHS>>)]

\* C22: a block whose content is no structured document with a text name is split
\* at its first colon into name and argument part, both trimmed; the args are the
\* decoded value when the argument part is valid JSON and the argument part as a
\* string otherwise; a later colon belongs to the argument part.
C22_ShorthandSplitsAtFirstColon ==
    JustParsed =>
        \A content \in ShorthandContents :
            parsed[1] = <<OPEN>> \o content \o <<CLOSE>> =>
                tool_calls = <<ShorthandRequest(content)>>

\* the argument part holds a JSON value followed by more text with colons
C22_Witness ==
    /\ JustParsed
    /\ parsed[1] = <<OPEN, SHJ, SHS, CLOSE>>
    /\ tool_calls = <<[name |-> <<"calc">>, args |-> JsonString(<<"{\"x\":1}", SHS>>)]>>

\* the argument part is a JSON value
C22_JsonArgsReached ==
    /\ JustParsed
    /\ parsed[1] = <<OPEN, SHJ, CLOSE>>
    /\ tool_calls = <<[name |-> <<"calc">>, args |-> JsonObject(<<"{\"x\":1}">>)]>>

----------------------------------------------------------------------------
\* a token stands somewhere in a text
Holds(text, tok) == \E i \in 1..Len(text) : text[i] = tok

\* the rendering of a successful result with object data, written out
RenderedSuccess(name, data) ==
    <<"tool <bq>">> \o name \o <<"<bq> exec", "ok:\n\n", "pretty">> \o data.v

RECURSIVE RenderedUpTo(_, _)
\* the separator and the rendering of the first n calls of the turn, in order
RenderedUpTo(requests, n) ==
    IF n = 0 THEN <<>>
    ELSE RenderedUpTo(requests, n - 1) \o <<SEP>>
         \o RenderedSuccess(requests[n].name, replied[n].v.data)

\* every call of the turn came back as a success with object data
AllSucceeded ==
    /\ replied # <<>>
    /\ \A i \in 1..Len(replied) :
          replied[i].ok /\ replied[i].v.success /\ replied[i].v.data.kind = "object"

\* C23: with a client attached and every requested tool returning a success, the
\* text the turn returns is the assistant text as it came, tool blocks included,
\* followed for each tool call in text order by the separator and the rendering
\* of its result: the line naming the tool and the data pretty-printed, so that
\* data {"file_count":3} is in the text returned.
C23_ReturnedTextIsTextThenResults ==
    (pc = "ret" /\ ret.st = "ok" /\ tools_client.some /\ AllSucceeded) =>
        LET found == BlocksFrom(AssembledText, 1)
        IN  /\ OnlyWellFormedBlocks(AssembledText) => Len(replied) = Len(found)
            /\ SubSeq(ret.v, 1, Len(AssembledText)) = AssembledText
            /\ ret.v = AssembledText \o RenderedUpTo(dispatched, Len(replied))
            /\ \A i \in 1..Len(replied) :
                  /\ Holds(ret.v, replied[i].v.data.v[1])
                  /\ OnlyWellFormedBlocks(AssembledText) =>
                        dispatched[i].name = found[i].name

\* two tool calls in one turn, both successful
C23_Witness ==
    /\ pc = "ret"
    /\ ret.st = "ok"
    /\ AllSucceeded
    /\ Len(replied) = 2
    /\ dispatched[1].name # dispatched[2].name
    /\ OnlyWellFormedBlocks(AssembledText)
    /\ Holds(ret.v, "{\"file_count\":3}")

----------------------------------------------------------------------------
\* the one tool call of the turn has returned a result
Formatted == pc = "ret" /\ Len(replied) = 1 /\ replied[1].ok

\* C25: the text given to the callback for a result is the line naming the tool,
\* then: for success=true the data itself when it is a string and the
\* pretty-printed data otherwise; for success=false the error message carried, or
\* the fixed placeholder when there is none. The data of a failed result and the
\* error of a successful result are nowhere in the text.
C25_RenderingByCase ==
    Formatted =>
        LET r == replied[1].v
            text == Last(sink)
            head == <<"tool <bq>">> \o dispatched[1].name \o <<"<bq> exec">>
        IN  /\ (r.success /\ r.data.kind = "string") =>
                  text = head \o <<"ok:\n\n">> \o r.data.v
            /\ (r.success /\ r.data.kind = "object") =>
                  text = head \o <<"ok:\n\n", "pretty">> \o r.data.v
            /\ (r.success /\ r.data.kind = "null") =>
                  text = head \o <<"ok:\n\n", "null">>
            /\ (~r.success /\ r.error.some) =>
                  text = head \o <<"failed:\n\n">> \o r.error.v
            /\ (~r.success /\ ~r.error.some) =>
                  text = head \o <<"failed:\n\n", "unknown error">>
            /\ (r.success /\ r.error.some) => ~Holds(text, r.error.v[1])
            /\ (~r.success /\ r.data.kind # "null") => ~Holds(text, r.data.v[1])
            /\ ret = [st |-> "ok", v |-> parsed[1] \o <<SEP>> \o text]

\* a failed result that carries data besides its error message
C25_Witness ==
    /\ Formatted
    /\ ~replied[1].v.success
    /\ replied[1].v.data = JsonObject(<<"{\"file_count\":3}">>)
    /\ replied[1].v.error = Some(<<"timed out">>)
    /\ Last(sink) = <<"tool <bq>", "calc", "<bq> exec", "failed:\n\n", "timed out">>

\* a successful result with text data and an error message besides
C25_SuccessReached ==
    /\ Formatted
    /\ replied[1].v.success
    /\ replied[1].v.data = JsonString(<<"done">>)
    /\ replied[1].v.error.some
    /\ Last(sink) = <<"tool <bq>", "web_search", "<bq> exec", "ok:\n\n", "done">>

----------------------------------------------------------------------------
C24_TextArgsReached ==
    \E c \in CallIds :
        /\ calls[c].req.some
        /\ calls[c].req.v.args.kind = "string"
        /\ calls[c].params = calls[c].req
        /\ calls[c].st = "done"

----------------------------------------------------------------------------
Roles(msgs) == [i \in 1..Len(msgs) |-> msgs[i].role]

\* msgs2 is msgs with one message of that role added at the end
AppendsOne(msgs, msgs2, role) ==
    /\ Len(msgs2) = Len(msgs) + 1
    /\ SubSeq(msgs2, 1, Len(msgs)) = msgs
    /\ msgs2[Len(msgs2)].role = role

\* C27: the history only grows at its end and shrinks by its last message: the
\* system prompt, a user input and a returned text are each added as one message of
\* their role after the messages there, which stay as they are; the rollback takes
\* away exactly the message added last, so that after add_user_message and
\* remove_last_message the history is what it was.
C27_HistoryAppendAndRollback ==
    [][/\ messages' # messages =>
             \/ \E role \in {"system", "user", "assistant"} :
                   AppendsOne(messages, messages', role)
             \/ /\ messages # <<>>
                /\ messages' = SubSeq(messages, 1, Len(messages) - 1)
       /\ (pc = "connect" /\ tools_client'.some) =>
             AppendsOne(messages, messages', "system")
       /\ (pc = "input" /\ pc' = "request") =>
             /\ AppendsOne(messages, messages', "user")
             /\ Last(messages').content \in UserInputs
       /\ (pc = "ret" /\ ret.st = "ok") =>
             /\ AppendsOne(messages, messages', "assistant")
             /\ Last(messages').content = ret.v
       /\ (pc = "ret" /\ ret.st = "err") =>
             /\ Len(messages') = Len(messages) - 1
             /\ messages = messages' \o <<Last(messages)>>
             /\ Last(messages).role = "user"
             /\ messages' = before]_vars

\* a user message added and taken away again after an earlier turn went through
C27_Witness ==
    /\ pc = "input"
    /\ Len(turns) = 2
    /\ turns[2] = "err"
    /\ Roles(messages) = <<"system", "user", "assistant">>
    /\ Roles(before) = Roles(messages)

\* C28: in a turn with tool calls the callback is given first every non-empty
\* fragment of the completion, then for each tool call in text order the progress
\* fragment naming the tool, the separator and the result or error text of that
\* call; nothing of a later call comes before the text of an earlier one.
C28_SinkOrder ==
    (pc \in {"tool", "await", "ret"} /\ ~Failed) =>
        LET given == SelectSeq(OkContents, NonEmpty)
            n == Len(given)
        IN  /\ Len(sink) = n + 3 * Len(replied) + inflight
            /\ \A i \in 1..n : sink[i] = given[i]
            /\ \A k \in 1..(Len(sink) - n) :
                  LET call == (k + 2) \div 3
                      name == dispatched[call].name
                      frag == sink[n + k]
                  IN  /\ k % 3 = 1 =>
                            frag = <<"\nexec tool <bq>">> \o name \o <<"<bq>...\n">>
                      /\ k % 3 = 2 => frag = <<SEP>>
                      /\ k % 3 = 0 =>
                            /\ SubSeq(frag, 1, Len(name) + 1) = <<"tool <bq>">> \o name
                            /\ frag = ToolText(name, replied[call])
            /\ dispatched = SubSeq(CallsOfTurn, 1, Len(dispatched))

\* the progress fragment of the second call has been shown after the text of the
\* first, and the completion came in two fragments
C28_Witness ==
    /\ pc = "await"
    /\ Len(replied) = 1
    /\ Len(SelectSeq(OkContents, NonEmpty)) = 2
    /\ Len(sink) = 6
    /\ sink[6] = ProgressText(dispatched[2].name)
    /\ dispatched[1].name # dispatched[2].name

\* the stream of this turn ended with an Err item
StreamFailed == received # <<>> /\ Last(received) = Err(<<"stream failed">>)

\* C29: when the stream yields an error after some fragments were given to the
\* callback, get_response_stream returns that error: the text assembled so far is
\* not parsed, no request is taken from it and no tool call is made, also when the
\* text holds a whole tool block and a client is attached; the callback has seen
\* the fragments before the error and nothing else.
C29_StreamErrorSkipsParsing ==
    StreamFailed =>
        /\ pc = "ret"
        /\ ret = [st |-> "err", e |-> <<"stream failed">>]
        /\ parsed = <<>>
        /\ tool_calls = <<>>
        /\ dispatched = <<>>
        /\ replied = <<>>
        /\ inflight = 0
        /\ Len(OkContents) = Len(received) - 1
        /\ sink = SelectSeq(OkContents, NonEmpty)

\* the error came after a whole tool block, with a client attached
C29_Witness ==
    /\ StreamFailed
    /\ pc = "ret"
    /\ tools_client.some
    /\ Len(OkContents) = 1
    /\ CallsOfTurn # <<>>
    /\ dispatched = <<>>

\* C30: get_response_stream leaves the history alone, whether it returns a text,
\* returns an error or runs tool calls: no step of it changes messages, and the
\* completion request it issued carries exactly the history as it stood on entry,
\* which is the history before the turn followed by the user message of the turn.
C30_GetResponseLeavesHistory ==
    /\ [](requested.some =>
             /\ requested.v.messages = messages
             /\ Len(messages) = Len(before) + 1
             /\ SubSeq(messages, 1, Len(before)) = before
             /\ Last(messages).role = "user"
             /\ pc \in {"stream", "tool", "await", "ret"})
    /\ [][(pc \in {"request", "stream", "tool", "await"}) => messages' = messages]_vars

\* a second turn has run a tool call and returned
C30_Witness ==
    /\ pc = "ret"
    /\ ret.st = "ok"
    /\ replied # <<>>
    /\ Len(turns) = 1
    /\ requested.some
    /\ Len(requested.v.messages) = 4
    /\ messages = requested.v.messages

----------------------------------------------------------------------------
\* the payloads that are no ToolParameters: a document without args, and words
NotARequest == { <<JB>>, <<PROSE>> }

\* call c is a Dispatch with the action type execute and such a payload
IsUndecodable(c) ==
    calls[c].op = "do_action" /\ calls[c].type = "execute" /\ calls[c].body \in NotARequest

\* C32: a Dispatch call of type execute whose payload is no ToolParameters is
\* answered with an invalid-argument fault in the step that takes it up: the mutex
\* of the registry is not acquired, also when it is free, no tool is looked up or
\* run, and the registry stays as it is.
C32_UndecodableRefusedBeforeLock ==
    /\ [](\A c \in CallIds :
            IsUndecodable(c) =>
                /\ calls[c].st = "done"
                /\ calls[c].out = Some(Status("InvalidArgument"))
                /\ calls[c].params = None
                /\ ~calls[c].locked
                /\ calls[c].tool = 0
                /\ calls[c].invoked = <<>>
                /\ calls[c].ran = None
                /\ lock # c)
    /\ [][\A c \in CallIds :
            (calls[c].st = "idle" /\ calls'[c].op = "do_action"
                /\ calls'[c].type = "execute" /\ calls'[c].body \in NotARequest) =>
                    /\ tools' = tools
                    /\ registered' = registered
                    /\ lock' = lock]_vars

\* a request without args for a registered tool, refused while another call holds
\* the mutex
C32_Witness ==
    \E c \in CallIds :
        /\ IsUndecodable(c)
        /\ calls[c].body = <<JB>>
        /\ calls[c].st = "done"
        /\ find(tools, <<"web_search">>) # 0
        /\ lock \notin {0, c}

----------------------------------------------------------------------------
\* the handler of call c has returned
Completed(c) == calls[c].st \in {"done", "returned", "retired"}

\* the handler of call c waits for the mutex or is inside the execute of its tool
InHandler(c) == calls[c].st \in {"lock", "exec"}

\* C31: the mutex of the registry is held by a call only while that call is inside
\* the execute of its tool, and no call that has returned, with a result, with
\* NotFound or with an internal fault, still holds it; a call that waits for the
\* mutex or holds it leaves that only by returning; and, given that every execute
\* returns, again and again no call waits or holds: every Dispatch or Discover
\* that waits for the mutex gets it and returns.
C31_WaitingCallCompletes ==
    /\ [](lock # 0 => lock \in CallIds /\ calls[lock].st = "exec")
    /\ [](\A c \in CallIds : Completed(c) => lock # c)
    /\ [][\A c \in CallIds : InHandler(c) => InHandler(c)' \/ Completed(c)']_vars
    /\ []<>(\A c \in CallIds : ~InHandler(c))

\* a Discover waits for the mutex while a Dispatch is inside execute
C31_Witness ==
    \E c, d \in CallIds :
        /\ calls[c].st = "lock"
        /\ calls[c].op = "list_flights"
        /\ calls[d].st = "exec"
        /\ lock = d

----------------------------------------------------------------------------
\* the call of web_search that has returned found results
SearchSucceeded ==
    /\ tool_ret.some
    /\ tool_ret.v.tool = "tools::WebSearchTool"
    /\ tool_ret.v.out.ok
    /\ tool_ret.v.out.v.success

\* the max_results a call asks for: the one in its args, 5 when there is none
EffectiveMaxResults(args) == IF args.max_results.some THEN args.max_results.v ELSE 5

\* C34: the results of a web_search call, the main result and the related topics
\* together, are never more than the max_results of the call, 5 when the args
\* have none, for every max_results from 0 up.
C34_AtMostMaxResults ==
    SearchSucceeded =>
        Len(tool_ret.v.out.v.data.results) <= EffectiveMaxResults(tool_ret.v.args)

----------------------------------------------------------------------------
\* a ToolResult that reports a success carries no error; one that reports a
\* failure carries an error and null as its data
WellFormed(result) ==
    /\ result.success => ~result.error.some
    /\ ~result.success => result.error.some /\ result.data = JsonNull

\* the execute of a tool has returned a ToolResult
ResultReturned == tool_ret.some /\ tool_ret.v.out.ok

\* C33: every ToolResult that file_analyzer, web_search or file_tool returns is
\* well formed: with success there is no error, without success there is an error
\* and the data is null.
C33_ResultsWellFormed == ResultReturned => WellFormed(tool_ret.v.out.v)

\* file_tool was asked for a conversion with output and options given, the
\* converter failed, and the result reports it
C33_Witness ==
    /\ ResultReturned
    /\ tool_ret.v.tool = "tools::FileTool"
    /\ tool_ret.v.args.operation = Some("convert")
    /\ tool_ret.v.args.output.some /\ tool_ret.v.args.options.some
    /\ tool_ret.v.out.v = Failure(<<"conversion failed">>)

\* each of the three tools has returned a result that reports a success
SucceededWith(tool) ==
    /\ ResultReturned
    /\ tool_ret.v.tool = tool
    /\ tool_ret.v.out.v.success
    /\ tool_ret.v.out.v.data # JsonNull
C33_AnalyzerSucceeded == SucceededWith("tools::FileAnalyzerTool")
C33_SearchSucceeded == SucceededWith("tools::WebSearchTool")
C33_FileToolSucceeded == SucceededWith("tools::FileTool")

----------------------------------------------------------------------------
\* the sum of the sizes of a set of files
RECURSIVE SumOfSizes(_)
SumOfSizes(files) ==
    IF files = {} THEN 0
    ELSE LET f == CHOOSE x \in files : TRUE
         IN  f.size + SumOfSizes(files \ {f})

\* largest_files of the analysis holds the largest of the files counted: at most 5
\* entries, all the files when 5 or fewer were counted, largest first, each entry a
\* file counted and none twice, and no file left out larger than an entry
HoldsLargest(analysis, counted) ==
    LET list == analysis.largest_files
        listed == { list[i] : i \in 1..Len(list) }
    IN  /\ Len(list) <= 5
        /\ Len(list) = IF Cardinality(counted) < 5 THEN Cardinality(counted) ELSE 5
        /\ \A i, j \in 1..Len(list) : i < j => list[i].size >= list[j].size
        /\ Cardinality(listed) = Len(list)
        /\ listed \subseteq counted
        /\ \A out \in counted \ listed : \A e \in listed : out.size <= e.size

\* the counts of the analysis are those of the files counted
CountsFiles(analysis, counted) ==
    /\ analysis.file_count = Cardinality(counted)
    /\ analysis.total_size = SumOfSizes(counted)

\* file_analyzer has returned the analysis of a directory
AnalysisReturned ==
    /\ ResultReturned
    /\ tool_ret.v.tool \in { "tools::FileAnalyzerTool", "main::FileAnalyzerTool" }
    /\ tool_ret.v.out.v.success

\* C35: after every file processed and every merge of the analysis of a directory
\* below, in both walks, largest_files holds the 5 largest files counted (all when
\* fewer were counted), largest first, file_count is the number of files counted
\* and total_size the sum of their sizes; the result returned carries that analysis.
C35_LargestFilesAndCounts ==
    /\ \A f \in 1..Len(walk.frames) :
          /\ HoldsLargest(walk.frames[f].analysis, walk.frames[f].counted)
          /\ CountsFiles(walk.frames[f].analysis, walk.frames[f].counted)
    /\ AnalysisReturned =>
          /\ Len(walk.frames) = 1
          /\ tool_ret.v.out.v.data = walk.frames[1].analysis

\* a recursive analysis has merged a directory below and counted more than 5 files,
\* and a file that is smaller than every entry has been left out of the list
C35_Witness ==
    /\ AnalysisReturned
    /\ walk.impl = "main::FileAnalyzerTool"
    /\ walk.frames[1].merged
    /\ Cardinality(walk.frames[1].counted) > 5
    /\ \E out \in walk.frames[1].counted :
          \A i \in 1..5 : walk.frames[1].analysis.largest_files[i].size > out.size

\* the walk with a stack has counted more than 5 files, the last one larger than
\* the first
C35_StackWalkReached ==
    /\ walk.impl = "tools::FileAnalyzerTool"
    /\ walk.st = "ok"
    /\ \E first, last \in walk.frames[1].counted :
          /\ first.path = 1 /\ last.path = MaxFiles
          /\ last.size > first.size

====
